---- MODULE Spec2Model ----
(***************************************************************************)
(* narva-queue: the capture pipeline (camera/balticlivecam.py), the        *)
(* detection (detection/yolo.py), the ingestion cycle (service/ingest.py), *)
(* the retention sweep (service/retention.py), the worker loop             *)
(* (worker/main.py) and the time series of the web application            *)
(* (web/app.py).                                                           *)
(*                                                                         *)
(* Text is a sequence of pieces (strings).  The piece "token=" is the      *)
(* literal the redaction pattern looks for; delimiter pieces end a token   *)
(* value; every other piece is a run of non-delimiter characters.          *)
(*                                                                         *)
(* Several programs share the variables: the worker loop (Spec, SpecLive), *)
(* one call of capture_frame_to_file (SpecCapture), one call of            *)
(* _redact_tokens (SpecRedact), one call of a function of detection/yolo.py *)
(* (SpecYolo) and one call of _downsample_points or _series_data           *)
(* (SpecSeries).                                                           *)
(***************************************************************************)
EXTENDS Integers, Sequences, FiniteSets, TLC

VARIABLES
    \* ---- one call of capture_frame_to_file (SpecCapture) ----
    c_pc,          \* position inside capture_frame_to_file
    c_onpath,      \* shutil.which(ffmpeg_bin) is not None, for this call
    c_attempt,     \* number of the capture attempt that is running (0: none yet)
    c_last_error,  \* last_error of capture_frame_to_file
    c_pending,     \* the exception that is propagating out of the current attempt
    c_log,         \* per finished attempt: "ok", or the exception that ended it
    c_result,      \* what the call returned or raised
    c_file,        \* the file at output_path: "missing", "empty" or "data"
    c_tool,        \* what the last launch of the media tool did
    c_probe,       \* what the launch of the probe tool did
    requests,      \* discovery requests made by this capture_frame_to_file call
    tool_runs,     \* subprocess launches of the media tool by this call
    s_script,      \* what the authentication endpoint answers to the next requests
    s_attempt,     \* requests made by the current get_stream_url call
    s_last_error,  \* last_error of get_stream_url
    s_errs,        \* the exception of every failed request of the current call
    s_result,      \* what the last get_stream_url call returned or raised
    c_entry,       \* the public function that was called
    b_result       \* what capture_frame_bytes returned or raised

capvars == <<c_pc, c_onpath, c_attempt, c_last_error, c_pending, c_log, c_result,
             c_file, c_tool, c_probe, requests, tool_runs, s_script, s_attempt,
             s_last_error, s_errs, s_result, c_entry, b_result>>

VARIABLES
    \* ---- the worker loop (Spec) ----
    w_pc,              \* position of the worker inside its loop
    clock,             \* the wall clock, in hours
    image_ttl_days,    \* settings.image_ttl_days
    last_retention_at, \* run()'s local of that name, in hours
    db,                \* the committed rows of the captures table, oldest first
    tx,                \* the table as the open session's transaction sees it
    session,           \* "closed", "active", or "deactive" after a failed flush
    next_id,           \* the next value of the id sequence
    temp_jpg,          \* the temporary JPEG of ingest_capture
    capture_result,    \* the CaptureResult of this cycle
    det,               \* the detection of this cycle: count, dimensions, what predict gave
    exc,               \* the exception ingest_capture's except clause caught
    added,             \* the rows this cycle handed to session.add
    propagated,        \* the exception that reached the loop's catch-all
    sweep,             \* what this cycle's retention sweep saw and returned
    cycles,            \* completed cycles
    capture_interval,  \* settings.capture_interval_seconds, in hours
    loop_started,      \* run()'s local of that name
    trace              \* the steps this cycle has taken so far

workervars == <<w_pc, clock, image_ttl_days, last_retention_at, db, tx, session,
                next_id, temp_jpg, capture_result, det, exc, added, propagated,
                sweep, cycles, capture_interval, loop_started, trace>>

VARIABLES
    \* ---- one call of a pure function ----
    f_pc,   \* "idle", "call" before the call, "return" after it
    f_arg,  \* the arguments of the call
    f_ret   \* what the call returned

callvars == <<f_pc, f_arg, f_ret>>

VARIABLES
    \* ---- one run of main of scripts/count_people.py (SpecScript) ----
    m_pc,             \* position inside main; "return" or "raise" when it is left
    m_args,           \* args: the parsed command line
    m_temp_path,      \* the temporary JPEG at temp_path
    m_capture_result, \* main's local capture_result
    m_count,          \* main's locals after detection and annotation
    m_exc,            \* the exception main's try block raised
    m_raised_by,      \* the step that raised it
    m_stdout,         \* the payloads printed so far, one JSON object each
    m_exit            \* the exit code main returns

scriptvars == <<m_pc, m_args, m_temp_path, m_capture_result, m_count, m_exc,
                m_raised_by, m_stdout, m_exit>>

vars == <<capvars, workervars, callvars, scriptvars>>

----------------------------------------------------------------------------
\* Program constants.

StreamFetchAttemptsOne == 2 - 1

\* balticlivecam.py:22
DEFAULT_STREAM_FETCH_ATTEMPTS == 2

CaptureAttemptsThree == 2 + 1

\* balticlivecam.py:23
DEFAULT_CAPTURE_ATTEMPTS == 2

\* How many answers of the authentication endpoint are fixed in advance for
\* one get_stream_url call: one more than the attempt budget, so that a
\* further request would find an answer.
ScriptLen == DEFAULT_STREAM_FETCH_ATTEMPTS + 1

----------------------------------------------------------------------------
\* Text.

TokenMark == "token="
Redacted == "<redacted>"

\* VerticalTab and NoBreakSpace stand for the characters U+000B and U+00A0,
\* Backquote for U+0060, which a string of this notation cannot hold.
VerticalTab == "\\x0b"
NoBreakSpace == "\\xa0"
Backquote == "\\x60"

\* Whitespace, for \s of a pattern and for str.strip(): the six ASCII
\* characters and, of the other Unicode whitespace, the no-break space.
WhitespacePieces == {" ", "\n", "\t", "\r", "\f", VerticalTab, NoBreakSpace}

\* Characters the URL pattern stops at (balticlivecam.py:29): whitespace
\* ' " < >.  The replacement text begins with "<".
UrlDelimPieces == WhitespacePieces \cup {"'", "\"", "<", ">", Redacted}

\* Characters the token pattern stops at (balticlivecam.py:31): & whitespace
\* ' " < >.
DelimPieces == UrlDelimPieces \cup {"&"}

IsDelim(p) == p \in DelimPieces

IsUrlDelim(p) == p \in UrlDelimPieces

\* A nullable value: Null is None / SQL NULL, Some(v) a value.
Null == <<>>
Some(v) == <<v>>

\* Exceptions: [type, msg, cause]; NoExc is Python's None.
NoExc == [type |-> "None"]

Exc(t, m, c) == [type |-> t, msg |-> m, cause |-> c]

TypeName(e) == <<e.type>>

\* str(exc)
Str(e) == e.msg

RetryableWithMissingTool ==
    {"StreamDiscoveryError", "FrameCaptureError", "DependencyMissingError"}

\* exceptions.py: FrameCaptureError, StreamDiscoveryError (both CameraModuleError)
Retryable == {"StreamDiscoveryError", "FrameCaptureError"}

\* _redact_tokens: TOKEN_PATTERN.sub("token=<redacted>", value) with
\* TOKEN_PATTERN = token=[^&\s'"<>]+ : "token=" followed by at least one
\* non-delimiter piece; the whole run of non-delimiter pieces is replaced.
SkipOnePiece(s) == Tail(s)

RECURSIVE SkipRun(_)
SkipRun(s) ==
    IF s = <<>> \/ IsDelim(Head(s)) THEN s ELSE SkipRun(Tail(s))

RECURSIVE RedactFirstOnly(_)
RedactFirstOnly(value) ==
    IF value = <<>> THEN <<>>
    ELSE IF Head(value) = TokenMark /\ Len(value) >= 2 /\ ~IsDelim(value[2])
         THEN <<TokenMark, Redacted>> \o SkipRun(Tail(value))
         ELSE <<Head(value)>> \o RedactFirstOnly(Tail(value))

RECURSIVE _redact_tokens(_)
_redact_tokens(value) ==
    IF value = <<>> THEN <<>>
    ELSE IF Head(value) = TokenMark /\ Len(value) >= 2 /\ ~IsDelim(value[2])
         THEN <<TokenMark, Redacted>> \o _redact_tokens(SkipRun(Tail(value)))
         ELSE <<Head(value)>> \o _redact_tokens(Tail(value))

IsSpace(p) == p \in WhitespacePieces

RECURSIVE LStrip(_)
LStrip(s) == IF s # <<>> /\ IsSpace(Head(s)) THEN LStrip(Tail(s)) ELSE s

RECURSIVE RStrip(_)
RStrip(s) ==
    IF s # <<>> /\ IsSpace(s[Len(s)]) THEN RStrip(SubSeq(s, 1, Len(s) - 1)) ELSE s

\* str.strip()
Strip(s) == RStrip(LStrip(s))

----------------------------------------------------------------------------
\* The authentication endpoint and the stream URL.

UrlHead == "https://edge01.balticlivecam.com/blc/narva/index.m3u8?"

URL1 == <<UrlHead, TokenMark, "abc123">>
URL2 == <<UrlHead, TokenMark, "zzz999", "&", "id=461">>
TokenAmp == <<UrlHead, TokenMark, "&">>

\* STREAM_URL_PATTERN (balticlivecam.py:28-30): https://...m3u8?token=
\* followed by at least one character that is not whitespace ' " < >; the
\* item begins with a match.
IsStreamUrl(item) ==
    /\ Len(item) >= 3
    /\ item[1] = UrlHead
    /\ item[2] = TokenMark
    /\ ~IsUrlDelim(item[3])

\* The pieces of s up to the first one the URL pattern stops at.
RECURSIVE UrlRun(_)
UrlRun(s) ==
    IF s = <<>> \/ IsUrlDelim(Head(s)) THEN <<>>
    ELSE <<Head(s)>> \o UrlRun(Tail(s))

\* match.group(0): the match runs on to the first such character.
MatchedUrl(item) == <<item[1], item[2]>> \o UrlRun(Tail(Tail(item)))

\* A response body is a sequence of items; an item is a piece sequence, a
\* stretch of the body at whose start a match can begin.
Junk == <<"<html>no stream here</html>">>
NoToken == <<UrlHead, TokenMark>>
Quoted2 == URL2 \o <<"\"", ">">>

\* A body without a match, one whose first match is token=& and one whose
\* match is followed by a quote.
Bodies == { <<Junk, NoToken>>, <<TokenAmp, Quoted2>>, <<Junk, Quoted2>> }

\* What urlopen raises: the class of the exception and its str().  A read
\* that times out raises TimeoutError, an answer with status 403 HTTPError.
NetErrors ==
    { [type |-> "TimeoutError", text |-> <<"timed out">>],
      [type |-> "HTTPError",
       text |-> <<"HTTP Error 403: ", UrlHead, TokenMark, "abc123", "&", "id=461">>] }

Responses ==
    { [kind |-> "error", type |-> e.type, text |-> e.text, items |-> <<>>] :
        e \in NetErrors }
    \cup { [kind |-> "body", type |-> "None", text |-> <<>>, items |-> b] :
             b \in Bodies }

Scripts == [1..ScriptLen -> Responses]

\* _extract_stream_url: the first match of STREAM_URL_PATTERN, or
\* StreamDiscoveryError when there is none.
RECURSIVE FirstUrl(_)
FirstUrl(items) ==
    IF items = <<>> THEN <<>>
    ELSE IF IsStreamUrl(Head(items)) THEN MatchedUrl(Head(items))
    ELSE FirstUrl(Tail(items))

\* _request_auth_token_payload followed by _extract_stream_url, for one
\* answer of the endpoint: [ok, url, exc].
_request_and_extract(resp) ==
    IF resp.kind = "error"
    THEN [ok |-> FALSE, url |-> <<>>,
          exc |-> Exc("StreamDiscoveryError",
                      <<"auth_token request failed: ">> \o _redact_tokens(resp.text),
                      Exc(resp.type, resp.text, NoExc))]
    ELSE IF FirstUrl(resp.items) = <<>>
    THEN [ok |-> FALSE, url |-> <<>>,
          exc |-> Exc("StreamDiscoveryError",
                      <<"No tokenized m3u8 URL found in auth_token response.">>,
                      NoExc)]
    ELSE [ok |-> TRUE, url |-> FirstUrl(resp.items), exc |-> NoExc]

\* get_stream_url, lines 64-67: the summarising error after the loop.
DiscoveryFailure(last_error) ==
    Exc("StreamDiscoveryError",
        <<"Unable to discover stream URL from auth_token response.">>
          \o (IF last_error.type = "None" THEN <<>>
              ELSE <<" Last error: ">> \o _redact_tokens(Str(last_error))),
        last_error)

\* capture_frame_to_file, lines 111-114.
CaptureFailure(last_error) ==
    Exc("FrameCaptureError",
        <<"Failed to capture frame from live stream.">>
          \o (IF last_error.type = "None" THEN <<>>
              ELSE <<" Last error: ">> \o _redact_tokens(Str(last_error))),
        last_error)

----------------------------------------------------------------------------
\* One call of capture_frame_to_file.

FileStates == {"missing", "empty", "data"}

NoResult == [kind |-> "none"]
Returned(v) == [kind |-> "return", value |-> v]
Raised(e) == [kind |-> "raise", exc |-> e]

\* str() of the tool's stderr on a non-zero exit.
StderrTexts == { <<>>,
                 <<"Failed to open ", UrlHead, TokenMark, "supersecret", "\r", "\n">>,
                 <<UrlHead, TokenMark, "supersecret", ":", " ", "key", " ",
                   "supersecret", " ", "rejected", "\n">> }

\* What subprocess.run of the media tool does (lines 200-214).
ToolOutcomes ==
    { [kind |-> k, stderr |-> <<>>, stdout |-> <<>>] :
         k \in {"ok", "timeout", "notfound", "oserror"} }
    \cup { [kind |-> "nonzero", stderr |-> t, stdout |-> <<>>] : t \in StderrTexts }

\* No tool has been launched yet.
NoRun == [kind |-> "none", stderr |-> <<>>, stdout |-> <<>>]

\* The standard output of the probe tool, character by character.  SupTwo
\* stands for the character U+00B2 (superscript two), a digit for
\* str.isdigit() that int() does not accept.
SupTwo == "^2"

ProbeStdouts ==
    { <<"1", "9", "2", "0", "x", "1", "0", "8", "0", "\n">>,
      <<"0", "x", "0", "\n">>,
      <<>>,
      <<"N", "/", "A", "\n">>,
      <<"1", "9", "2", "0", "x", "\n">>,
      <<"1", SupTwo, "x", "1", "0", "8", "0", "\n">>,
      <<"1", "2", "x", "1", "0", "\n", "1", "2", "x", "1", "0", "\n">> }

\* What shutil.which("ffprobe") and subprocess.run of the probe do (lines
\* 221-247): the tool is absent, the launch fails, the run times out or exits
\* non-zero, or it exits zero with some standard output.
ProbeRuns ==
    { [kind |-> k, stderr |-> <<>>, stdout |-> <<>>] :
         k \in {"absent", "oserror", "timeout", "nonzero"} }
    \cup { [kind |-> "ok", stderr |-> <<>>, stdout |-> t] : t \in ProbeStdouts }

DecimalValue(c) ==
    CASE c = "0" -> 0 [] c = "1" -> 1 [] c = "2" -> 2 [] c = "3" -> 3
      [] c = "4" -> 4 [] c = "5" -> 5 [] c = "6" -> 6 [] c = "7" -> 7
      [] c = "8" -> 8 [] c = "9" -> 9

IsDecimal(c) == c \in {"0", "1", "2", "3", "4", "5", "6", "7", "8", "9"}

\* str.isdigit(): not empty and every character is a digit.
isdigit(s) ==
    /\ s # <<>>
    /\ \A i \in 1..Len(s) : IsDecimal(s[i]) \/ s[i] = SupTwo

\* int(s) for a string of decimal digits.
RECURSIVE int(_)
int(s) ==
    IF s = <<>> THEN 0
    ELSE 10 * int(SubSeq(s, 1, Len(s) - 1)) + DecimalValue(s[Len(s)])

\* Line 254: width_str.isdigit() and height_str.isdigit()
BothDigits(width_str, height_str) == isdigit(width_str) /\ isdigit(height_str)

ProbeEachDimension(run) ==
    IF run.kind # "ok"
    THEN [dims |-> <<Null, Null>>, exc |-> NoExc]
    ELSE LET output == Strip(run.stdout)
             xs == {i \in 1..Len(output) : output[i] = "x"}
             parsed(t) == IF t # <<>> /\ \A i \in 1..Len(t) : IsDecimal(t[i])
                          THEN Some(int(t)) ELSE Null
         IN IF xs = {}
            THEN [dims |-> <<Null, Null>>, exc |-> NoExc]
            ELSE LET at == CHOOSE i \in xs : \A j \in xs : i <= j
                 IN [dims |-> << parsed(SubSeq(output, 1, at - 1)),
                                 parsed(SubSeq(output, at + 1, Len(output))) >>,
                     exc |-> NoExc]

\* _probe_dimensions (lines 220-256): [dims, exc]: the pair (width, height)
\* it returns, or the exception that leaves it.
_probe_dimensions(run) ==
    IF run.kind # "ok"
    THEN [dims |-> <<Null, Null>>, exc |-> NoExc]
    ELSE LET output == Strip(run.stdout)
             xs == {i \in 1..Len(output) : output[i] = "x"}
         IN IF xs = {}
            THEN [dims |-> <<Null, Null>>, exc |-> NoExc]
            ELSE LET at == CHOOSE i \in xs : \A j \in xs : i <= j
                     width_str == SubSeq(output, 1, at - 1)
                     height_str == SubSeq(output, at + 1, Len(output))
                     decimal(t) == \A i \in 1..Len(t) : IsDecimal(t[i])
                     rejected == IF decimal(width_str) THEN height_str
                                 ELSE width_str
                 IN IF ~BothDigits(width_str, height_str)
                    THEN [dims |-> <<Null, Null>>, exc |-> NoExc]
                    ELSE IF ~(decimal(width_str) /\ decimal(height_str))
                    THEN [dims |-> <<Null, Null>>,
                          exc |-> Exc("ValueError",
                                      <<"invalid literal for int() with base 10: ",
                                        "'">> \o rejected \o <<"'">>,
                                      NoExc)]
                    ELSE [dims |-> <<Some(int(width_str)), Some(int(height_str))>>,
                          exc |-> NoExc]

\* No pure function is being called.
CallIdle ==
    /\ f_pc = "idle"
    /\ f_arg = <<>>
    /\ f_ret = <<>>

\* The script is not running.
ScriptIdle ==
    /\ m_pc = "idle"
    /\ m_args = <<>>
    /\ m_temp_path = "missing"
    /\ m_capture_result = [kind |-> "none"]
    /\ m_count = <<>>
    /\ m_exc = [type |-> "None"]
    /\ m_raised_by = "none"
    /\ m_stdout = <<>>
    /\ m_exit = <<>>

\* The capture call alone: the worker is not running.
WorkerOff ==
    /\ w_pc = "off"
    /\ clock = 0
    /\ image_ttl_days = 0
    /\ last_retention_at = 0
    /\ db = <<>>
    /\ tx = <<>>
    /\ session = "closed"
    /\ next_id = 1
    /\ temp_jpg = "missing"
    /\ capture_result = NoResult
    /\ det = [people_count |-> 0]
    /\ exc = NoExc
    /\ added = <<>>
    /\ propagated = NoExc
    /\ sweep = [ran |-> FALSE]
    /\ cycles = 0
    /\ capture_interval = 0
    /\ loop_started = 0
    /\ trace = <<>>

\* The two public functions that capture a frame, and the file at the output
\* path when each is called: capture_frame_bytes makes its own.
CaptureEntries ==
    { [fn |-> "capture_frame_to_file", pc |-> "start", file |-> f] :
         f \in {"missing", "data"} }
    \cup { [fn |-> "capture_frame_bytes", pc |-> "bytes", file |-> "missing"] }

CaptureInit ==
    /\ WorkerOff
    /\ CallIdle
    /\ ScriptIdle
    /\ \E entry \in CaptureEntries :
         /\ c_entry = entry.fn
         /\ c_pc = entry.pc
         /\ c_file = entry.file
    /\ b_result = NoResult
    /\ c_onpath = TRUE
    /\ c_attempt = 0
    /\ c_last_error = NoExc
    /\ c_pending = NoExc
    /\ c_log = <<>>
    /\ c_result = NoResult
    /\ c_tool = NoRun
    /\ c_probe = NoRun
    /\ requests = 0
    /\ tool_runs = 0
    /\ s_script \in Scripts
    /\ s_attempt = 0
    /\ s_last_error = NoExc
    /\ s_errs = <<>>
    /\ s_result = NoResult

\* The start of a get_stream_url call (lines 52-53): fresh locals.
BeginDiscovery ==
    /\ s_attempt' = 0
    /\ s_last_error' = NoExc
    /\ s_errs' = <<>>
    /\ s_result' = NoResult
    /\ s_script' \in Scripts

\* Lines 78-85: the path check, then the first attempt begins.
PathCheckSkipped(onpath) == TRUE

\* Line 78: shutil.which(ffmpeg_bin) is not None
PathCheck(onpath) == onpath

capture_frame_to_file_start ==
    /\ c_pc = "start"
    /\ \E onpath \in BOOLEAN :
        /\ c_onpath' = onpath
        /\ IF PathCheck(onpath)
           THEN /\ c_pc' = "discover"
                /\ c_attempt' = 1
                /\ c_result' = NoResult
           ELSE /\ c_pc' = "done"
                /\ c_attempt' = 0
                /\ c_result' = Raised(Exc("DependencyMissingError",
                                          <<"Required binary not found in PATH: ffmpeg">>,
                                          NoExc))
    /\ UNCHANGED workervars
    /\ UNCHANGED callvars
    /\ UNCHANGED scriptvars
    /\ UNCHANGED <<c_last_error, c_pending, c_log, c_file, c_tool, c_probe,
                   requests, tool_runs, s_script, s_attempt, s_last_error,
                   s_errs, s_result>>
    /\ UNCHANGED <<c_entry, b_result>>

\* get_stream_url, one iteration of the loop of lines 53-62, and lines 64-67
\* when the budget is used up.
SetLastErrorFirstOnly(old, new) == IF old.type = "None" THEN new ELSE old

\* Line 62 (and line 107): last_error = exc
SetLastError(old, new) == new

get_stream_url_attempt ==
    /\ c_pc = "discover"
    /\ s_attempt < DEFAULT_STREAM_FETCH_ATTEMPTS
    /\ LET r == _request_and_extract(s_script[s_attempt + 1])
           last == SetLastError(s_last_error, r.exc)
       IN /\ s_attempt' = s_attempt + 1
          /\ requests' = requests + 1
          /\ IF r.ok
             THEN /\ s_result' = Returned(r.url)
                  /\ c_pc' = "ffmpeg"
                  /\ UNCHANGED <<s_last_error, s_errs, c_pending>>
             ELSE /\ s_last_error' = last
                  /\ s_errs' = Append(s_errs, r.exc)
                  /\ IF s_attempt + 1 < DEFAULT_STREAM_FETCH_ATTEMPTS
                     THEN UNCHANGED <<s_result, c_pc, c_pending>>
                     ELSE /\ s_result' = Raised(DiscoveryFailure(last))
                          /\ c_pending' = DiscoveryFailure(last)
                          /\ c_pc' = "failed"
    /\ UNCHANGED workervars
    /\ UNCHANGED callvars
    /\ UNCHANGED scriptvars
    /\ UNCHANGED <<c_onpath, c_attempt, c_last_error, c_log, c_result, c_file,
                   c_tool, c_probe, tool_runs, s_script>>
    /\ UNCHANGED <<c_entry, b_result>>

StderrAsIs(stderr) == stderr

\* Line 213: stderr = _redact_tokens(exc.stderr or "")
RedactStderr(stderr) == _redact_tokens(stderr)

OutputMissingOnly(file) == file = "missing"

\* Line 216: not output_path.exists() or output_path.stat().st_size == 0
OutputMissing(file) == file # "data"

\* The path of the output file, as text.
OutputPath == "/tmp/frame.jpg"

\* Lines 186-198: the command, as subprocess shows it in its exceptions; the
\* stream URL is in it as it was discovered.
CommandText(stream_url) ==
    <<"Command '['ffmpeg', '-hide_banner', '-loglevel', 'error', '-i', '">>
      \o stream_url
      \o <<"', '-frames:v', '1', '-q:v', '2', '", OutputPath, "']'">>

\* _run_ffmpeg_capture (lines 200-217) for the stream URL, one outcome of
\* subprocess.run and the file the tool left behind: the exception it
\* raises, or NoExc.
_run_ffmpeg_capture(stream_url, out, file) ==
    CASE out.kind = "notfound" ->
            Exc("DependencyMissingError",
                <<"Required binary not found in PATH: ffmpeg">>,
                Exc("FileNotFoundError",
                    <<"[Errno 2] No such file or directory: 'ffmpeg'">>, NoExc))
      [] out.kind = "oserror" ->
            Exc("PermissionError", <<"[Errno 13] Permission denied: 'ffmpeg'">>, NoExc)
      [] out.kind = "timeout" ->
            Exc("FrameCaptureError", <<"ffmpeg timed out while capturing frame.">>,
                Exc("TimeoutExpired",
                    CommandText(stream_url) \o <<" timed out after 30.0 seconds">>,
                    NoExc))
      [] out.kind = "nonzero" ->
            Exc("FrameCaptureError",
                <<"ffmpeg failed: ">> \o Strip(RedactStderr(out.stderr)),
                Exc("CalledProcessError",
                    CommandText(stream_url)
                      \o <<" returned non-zero exit status 1.">>,
                    NoExc))
      [] OTHER ->
            IF OutputMissing(file)
            THEN Exc("FrameCaptureError",
                     <<"ffmpeg completed but output JPEG was not created.">>, NoExc)
            ELSE NoExc

\* The file a tool run can leave at output_path: a launch that failed leaves
\* it alone, a run that started may have written nothing, a part or all.
FilesAfter(out, file) ==
    IF out.kind \in {"notfound", "oserror"} THEN {file} ELSE FileStates

\* Lines 89-95: the tool runs on the discovered URL.
run_ffmpeg ==
    /\ c_pc = "ffmpeg"
    /\ \E out \in ToolOutcomes :
         \E f \in FilesAfter(out, c_file) :
           LET e == _run_ffmpeg_capture(s_result.value, out, f)
           IN /\ tool_runs' = tool_runs + 1
              /\ c_tool' = out
              /\ c_file' = f
              /\ IF e.type = "None"
                 THEN /\ c_pc' = "probe"
                      /\ UNCHANGED <<c_pending, c_result, c_log>>
                 ELSE IF e.type \in Retryable
                 THEN /\ c_pc' = "failed"
                      /\ c_pending' = e
                      /\ UNCHANGED <<c_result, c_log>>
                 ELSE /\ c_pc' = "done"
                      /\ c_result' = Raised(e)
                      /\ c_log' = Append(c_log, e)
                      /\ UNCHANGED c_pending
    /\ UNCHANGED workervars
    /\ UNCHANGED callvars
    /\ UNCHANGED scriptvars
    /\ UNCHANGED <<c_onpath, c_attempt, c_last_error, c_probe, requests,
                   s_script, s_attempt, s_last_error, s_errs, s_result>>
    /\ UNCHANGED <<c_entry, b_result>>

\* Lines 96-105: probe the dimensions and return the CaptureResult.
probe_and_return ==
    /\ c_pc = "probe"
    /\ \E run \in ProbeRuns :
         LET r == _probe_dimensions(run)
         IN /\ c_probe' = run
            /\ IF r.exc.type = "None"
               THEN /\ c_result' = Returned([width |-> r.dims[1],
                                             height |-> r.dims[2],
                                             stream_url_host |->
                                                 "edge01.balticlivecam.com"])
                    /\ c_log' = Append(c_log, [type |-> "ok"])
               ELSE /\ c_result' = Raised(r.exc)
                    /\ c_log' = Append(c_log, r.exc)
    /\ c_pc' = "done"
    /\ UNCHANGED workervars
    /\ UNCHANGED callvars
    /\ UNCHANGED scriptvars
    /\ UNCHANGED <<c_onpath, c_attempt, c_last_error, c_pending, c_file, c_tool,
                   requests, tool_runs, s_script, s_attempt, s_last_error, s_errs,
                   s_result>>
    /\ UNCHANGED <<c_entry, b_result>>

\* Lines 106-114: the except clause of one attempt, then the next attempt or
\* the summarising error.
attempt_failed ==
    /\ c_pc = "failed"
    /\ LET last == SetLastError(c_last_error, c_pending)
       IN /\ c_last_error' = last
          /\ c_log' = Append(c_log, c_pending)
          /\ c_pending' = NoExc
          /\ c_file' = "missing"
          /\ IF c_attempt < DEFAULT_CAPTURE_ATTEMPTS
             THEN /\ c_attempt' = c_attempt + 1
                  /\ c_pc' = "discover"
                  /\ BeginDiscovery
                  /\ UNCHANGED c_result
             ELSE /\ c_pc' = "done"
                  /\ c_result' = Raised(CaptureFailure(last))
                  /\ UNCHANGED <<c_attempt, s_script, s_attempt, s_last_error,
                                 s_errs, s_result>>
    /\ UNCHANGED workervars
    /\ UNCHANGED callvars
    /\ UNCHANGED scriptvars
    /\ UNCHANGED <<c_onpath, c_tool, c_probe, requests, tool_runs>>
    /\ UNCHANGED <<c_entry, b_result>>

\* capture_frame_bytes, lines 124-126: the temporary file is created, empty,
\* and capture_frame_to_file is called on it.
capture_frame_bytes_start ==
    /\ c_pc = "bytes"
    /\ c_file' = "empty"
    /\ c_pc' = "start"
    /\ UNCHANGED workervars
    /\ UNCHANGED callvars
    /\ UNCHANGED scriptvars
    /\ UNCHANGED <<c_onpath, c_attempt, c_last_error, c_pending, c_log, c_result,
                   c_tool, c_probe, requests, tool_runs, s_script, s_attempt,
                   s_last_error, s_errs, s_result, c_entry, b_result>>

\* capture_frame_bytes, lines 128-138: the bytes of the file are returned, or
\* the exception of the capture goes on; the file is unlinked either way.
capture_frame_bytes_finally ==
    /\ c_pc = "done"
    /\ c_entry = "capture_frame_bytes"
    /\ b_result' = IF c_result.kind = "return" THEN Returned(c_file)
                   ELSE c_result
    /\ c_file' = "missing"
    /\ c_pc' = "bytes_done"
    /\ UNCHANGED workervars
    /\ UNCHANGED callvars
    /\ UNCHANGED scriptvars
    /\ UNCHANGED <<c_onpath, c_attempt, c_last_error, c_pending, c_log, c_result,
                   c_tool, c_probe, requests, tool_runs, s_script, s_attempt,
                   s_last_error, s_errs, s_result, c_entry>>

CaptureStep ==
    \/ capture_frame_to_file_start
    \/ get_stream_url_attempt
    \/ run_ffmpeg
    \/ probe_and_return
    \/ attempt_failed
    \/ capture_frame_bytes_start
    \/ capture_frame_bytes_finally

SpecCapture == CaptureInit /\ [][CaptureStep]_vars

\* Every request and every run of a tool is made with a timeout (lines 88-96,
\* 163, 203, 244), so a call that can take a step takes it.
SpecCaptureLive == CaptureInit /\ [][CaptureStep]_vars /\ WF_vars(CaptureStep)

----------------------------------------------------------------------------
\* The captures table, the session and the retention sweep.

\* Bound: the number of cycles the worker runs.
MaxCycles == 2

\* worker/main.py:48: timedelta(hours=24)
RETENTION_PERIOD_HOURS == 24

\* worker/main.py:27: timedelta(days=2), in hours
INITIAL_RETENTION_AGE_HOURS == 48

HoursPerDay == 24

\* db/models.py:27-31: the column defaults of the two mime type columns.  The
\* ORM leaves an attribute that is None out of the INSERT, so a column with a
\* default gets its default even when None was passed to the constructor.

InsertDefaults(row) ==
    [row EXCEPT
       !.image_mime_type =
           IF @ = Null THEN Some("image/jpeg") ELSE @,
       !.annotated_image_mime_type =
           IF @ = Null THEN Some("image/png") ELSE @]

VisibleAtOnce(committed, flushed) == flushed

\* session.py:29: autocommit=False.  The rows another connection reads after
\* this session's flush are the committed ones: the INSERT stays inside the
\* open transaction.
VisibleAfterFlush(committed, flushed) == committed

\* session.flush() of one pending row: the INSERT with the next id.
Flushed(rows, row, id) == Append(rows, [InsertDefaults(row) EXCEPT !.id = id])

\* ingest.py:49-63
OkRow(now, people_count, width, height, png) ==
    [id |-> 0, captured_at |-> now, camera_id |-> 461,
     people_count |-> Some(people_count),
     image_width |-> width, image_height |-> height,
     image_bytes |-> Some("jpeg"), image_mime_type |-> Some("image/jpeg"),
     annotated_image_bytes |-> Some(png),
     annotated_image_mime_type |-> Some("image/png"),
     status |-> "ok", error |-> Null]

ErrorRowWithImage(now, e) ==
    [id |-> 0, captured_at |-> now, camera_id |-> 461,
     people_count |-> Null,
     image_width |-> Null, image_height |-> Null,
     image_bytes |-> Some("jpeg"), image_mime_type |-> Some("image/jpeg"),
     annotated_image_bytes |-> Null, annotated_image_mime_type |-> Null,
     status |-> "error", error |-> Some(Str(e))]

\* ingest.py:68-82
ErrorRow(now, e) ==
    [id |-> 0, captured_at |-> now, camera_id |-> 461,
     people_count |-> Null,
     image_width |-> Null, image_height |-> Null,
     image_bytes |-> Null, image_mime_type |-> Null,
     annotated_image_bytes |-> Null, annotated_image_mime_type |-> Null,
     status |-> "error", error |-> Some(Str(e))]

\* retention.py:17-20: the WHERE clause.
Selected(row, cutoff) ==
    /\ row.captured_at < cutoff
    /\ (row.image_bytes # Null \/ row.annotated_image_bytes # Null)

NulledWithCount(row) ==
    [row EXCEPT !.image_bytes = Null, !.image_mime_type = Null,
                !.annotated_image_bytes = Null,
                !.annotated_image_mime_type = Null,
                !.people_count = Null]

NulledRawOnly(row) ==
    [row EXCEPT !.image_bytes = Null, !.image_mime_type = Null]

\* retention.py:22-27: the SET clause.
Nulled(row) ==
    [row EXCEPT !.image_bytes = Null, !.image_mime_type = Null,
                !.annotated_image_bytes = Null,
                !.annotated_image_mime_type = Null]

\* retention.py:13-30: prune_old_images at time now: the table after the bulk
\* update and the returned rowcount.
prune_old_images(rows, now, ttl_days) ==
    LET cutoff == now - ttl_days * HoursPerDay
    IN [rows |-> [i \in 1..Len(rows) |->
                    IF Selected(rows[i], cutoff) THEN Nulled(rows[i]) ELSE rows[i]],
        count |-> Cardinality({i \in 1..Len(rows) : Selected(rows[i], cutoff)})]

----------------------------------------------------------------------------
\* Detection, as ingest_capture sees it.

\* Numbers that the code holds as floats (box coordinates, the point handed to
\* point_in_polygon) are counted in halves: 41 stands for 20.5.

\* yolo.py:11-12
ROI_BASE_WIDTH == 1920
ROI_BASE_HEIGHT == 1080

\* yolo.py:13-26
ROI_POLYGON_BASE ==
    << <<303, 465>>, <<354, 465>>, <<890, 527>>, <<1279, 588>>, <<1510, 641>>,
       <<1683, 702>>, <<1820, 783>>, <<1888, 841>>, <<1739, 900>>,
       <<1195, 817>>, <<876, 705>>, <<293, 500>> >>

\* The builtin round() on the quotient num / den, den > 0: to the nearest
\* integer, a tie to the even one.
round(num, den) ==
    LET q == num \div den
        r == num % den
    IN IF 2 * r < den THEN q
       ELSE IF 2 * r > den THEN q + 1
       ELSE IF q % 2 = 0 THEN q ELSE q + 1

\* Binary floating point, 53 significant bits (float of Python).

\* floor(log2(num / den)) for num, den > 0.
RECURSIVE Log2Floor(_, _)
Log2Floor(num, den) ==
    IF num >= 2 * den THEN Log2Floor(num, 2 * den) + 1
    ELSE IF num < den THEN Log2Floor(2 * num, den) - 1
    ELSE 0

RECURSIVE Pow2(_)
Pow2(n) == IF n = 0 THEN 1 ELSE 2 * Pow2(n - 1)

\* 2^n modulo b.
RECURSIVE Pow2Mod(_, _)
Pow2Mod(n, b) == IF n = 0 THEN 1 % b ELSE (2 * Pow2Mod(n - 1, b)) % b

RECURSIVE OddPart(_)
OddPart(n) == IF n % 2 = 0 THEN OddPart(n \div 2) ELSE n

\* frame / base as a float, for base = 2^a * b with b odd: the quotient is
\* rounded to the nearest multiple of 2^(e - 52 - a), e = floor(log2(frame / b)).
\* QuotientError is b times the float minus the exact quotient, in that unit;
\* it is 0 when the quotient is a float.
QuotientError(frame, base) ==
    LET b == OddPart(base)
        e == Log2Floor(frame, b)
        rem == ((frame % b) * Pow2Mod(52 - e, b)) % b
    IN IF 2 * rem < b THEN 0 - rem ELSE b - rem

\* int(round(x * x_scale)) for x > 0 and x_scale = frame / base, frame > 0
\* (yolo.py:42-44).  The float product is off the exact x * frame / base by
\* less than 2^-21, and an exact product that is not a tie is at least
\* 1 / (2 * base) from one: the float rounds as the exact product does.  When
\* the exact product is the tie k + 1/2, the float product is that tie if
\* x times the error of x_scale is at most half a unit in the last place of
\* the tie, and round() goes to the even neighbour; it is above or below
\* the tie otherwise, and round() goes that way.
ScaledPositive(x, frame, base) ==
    LET exact == round(x * frame, base)
        k == (x * frame) \div base
        b == OddPart(base)
        a == Log2Floor(base, b)
        e == Log2Floor(frame, b)
        t == Log2Floor(2 * k + 1, 2)
        d == QuotientError(frame, base)
        g == e - a + 1 - t
        size == x * (IF d < 0 THEN 0 - d ELSE d)
                  * (IF g >= 0 THEN Pow2(g) ELSE 1)
                  * (IF d < 0 /\ k = 0 THEN 2 ELSE 1)
        half_ulp == b * (IF g >= 0 THEN 1 ELSE Pow2(0 - g))
    IN IF (2 * x * frame) % base # 0 \/ (x * frame) % base = 0 THEN exact
       ELSE IF size <= half_ulp THEN exact
       ELSE IF d > 0 THEN k + 1
       ELSE k

\* int(round(x * (frame / base))); negation is exact in every step.
Scaled(x, frame, base) ==
    IF x = 0 \/ frame = 0 THEN 0
    ELSE IF x < 0 THEN 0 - ScaledPositive(0 - x, frame, base)
    ELSE ScaledPositive(x, frame, base)

ScaleByWidthOnly(polygon, frame_width, frame_height) ==
    [i \in 1..Len(polygon) |->
       << Scaled(polygon[i][1], frame_width, ROI_BASE_WIDTH),
          Scaled(polygon[i][2], frame_width, ROI_BASE_WIDTH) >>]

\* yolo.py:40-44
scale_polygon(polygon, frame_width, frame_height) ==
    [i \in 1..Len(polygon) |->
       << Scaled(polygon[i][1], frame_width, ROI_BASE_WIDTH),
          Scaled(polygon[i][2], frame_height, ROI_BASE_HEIGHT) >>]

\* yolo.py:59: 1 / 1e-9, the factor that stands in for a division by the
\* zero height of a horizontal edge.
HORIZONTAL_EDGE_FACTOR == 1000000000

IntersectsClosedAbove(x, y, xi, yi, xj, yj) ==
    /\ (2 * yi > y) # (2 * yj >= y)
    /\ LET d == yj - yi
           n == (xj - xi) * (y - 2 * yi)
       IN IF d > 0 THEN (x - 2 * xi) * d < n
          ELSE IF d < 0 THEN (x - 2 * xi) * d > n
          ELSE x - 2 * xi < n * HORIZONTAL_EDGE_FACTOR

\* yolo.py:58-60: the edge from (xj, yj) to (xi, yi) is crossed by the ray
\* from the point (x, y), given in halves, towards larger x.  The second
\* conjunct is evaluated only when the first holds.
intersects(x, y, xi, yi, xj, yj) ==
    /\ (2 * yi > y) # (2 * yj > y)
    /\ LET d == yj - yi
           n == (xj - xi) * (y - 2 * yi)
       IN IF d > 0 THEN (x - 2 * xi) * d < n
          ELSE IF d < 0 THEN (x - 2 * xi) * d > n
          ELSE x - 2 * xi < n * HORIZONTAL_EDGE_FACTOR

\* yolo.py:55-64: the loop over the vertices, from vertex i on, with j the
\* vertex before it.
RECURSIVE RayCast(_, _, _, _, _, _)
RayCast(x, y, polygon, i, j, inside) ==
    IF i > Len(polygon) THEN inside
    ELSE RayCast(x, y, polygon, i + 1, i,
                 IF intersects(x, y, polygon[i][1], polygon[i][2],
                               polygon[j][1], polygon[j][2])
                 THEN ~inside ELSE inside)

InsideWhenDegenerate(x, y, polygon) ==
    IF Len(polygon) < 3 THEN TRUE
    ELSE RayCast(x, y, polygon, 1, Len(polygon), FALSE)

\* yolo.py:47-64: x and y in halves.
point_in_polygon(x, y, polygon) ==
    IF Len(polygon) < 3 THEN FALSE
    ELSE RayCast(x, y, polygon, 1, Len(polygon), FALSE)

BoxCenter(box) == << box[1] + box[3], box[2] + box[4] >>

\* yolo.py:67-70: ((x1 + x2) / 2.0, float(y2)), in halves.
bottom_center(box) == << box[1] + box[3], 2 * box[4] >>

RoiUnlessNull(width, height) ==
    IF width = Null \/ height = Null
    THEN Null
    ELSE Some(scale_polygon(ROI_POLYGON_BASE, width[1], height[1]))

\* yolo.py:73-77: None when a dimension is None or 0.
get_scaled_roi_polygon(width, height) ==
    IF width = Null \/ height = Null \/ width = Some(0) \/ height = Some(0)
    THEN Null
    ELSE Some(scale_polygon(ROI_POLYGON_BASE, width[1], height[1]))

\* A detection: its class id and its xyxy coordinates in halves.
PersonIn == [cls |-> 0, xyxy |-> <<1960, 1200, 2040, 1400>>]
PersonOut == [cls |-> 0, xyxy |-> <<200, 200, 280, 400>>]
Car == [cls |-> 2, xyxy |-> <<1960, 1200, 2040, 1400>>]

BoxLists == { <<>>, <<PersonIn, PersonOut, Car>> }

\* What model.predict does: raises, returns no results, or returns a result
\* with its orig_shape (height, width; Null when absent) and its boxes.
ModelOutputs ==
    { [kind |-> k, shape |-> Null, boxes |-> <<>>] : k \in {"raise", "empty"} }
    \cup { [kind |-> "result", shape |-> sh, boxes |-> b] :
             sh \in {Null, Some(<<1080, 1920>>)}, b \in BoxLists }

AllClasses(b) == TRUE

\* yolo.py:121: int(cls_id) != 0 is skipped.
IsPerson(b) == b.cls = 0

\* yolo.py:123: int(round(coord)) of the four coordinates.
RoundedBox(b) == [k \in 1..4 |-> round(b.xyxy[k], 2)]

\* yolo.py:80-134: [people_count, image_width, image_height, person_boxes].
\* The width and height the caller passed go into the predict arguments
\* (93-95) only; lines 102-103 set both to None before the reported shape is
\* read.
count_people_in_image(out, image_width, image_height) ==
    IF out.kind = "empty"
    THEN [people_count |-> 0, image_width |-> Null, image_height |-> Null,
          person_boxes |-> <<>>]
    ELSE LET width == IF out.shape = Null THEN Null ELSE Some(out.shape[1][2])
             height == IF out.shape = Null THEN Null ELSE Some(out.shape[1][1])
             persons == SelectSeq(out.boxes, IsPerson)
             person_boxes_all == [k \in 1..Len(persons) |-> RoundedBox(persons[k])]
             roi_polygon == get_scaled_roi_polygon(width, height)
             person_boxes_filtered ==
                 IF roi_polygon = Null THEN person_boxes_all
                 ELSE SelectSeq(person_boxes_all,
                                LAMBDA box :
                                  point_in_polygon(bottom_center(box)[1],
                                                   bottom_center(box)[2],
                                                   roi_polygon[1]))
         IN [people_count |-> Len(person_boxes_filtered),
             image_width |-> width, image_height |-> height,
             person_boxes |-> person_boxes_filtered]

\* What capture_frame_to_file hands to ingest_capture: a CaptureResult with the
\* frame on disk, with the probed dimensions or without them (the probe gave
\* nothing), or an exception (the partial file removed when the attempts were
\* used up, left alone when the tool could not be launched, the frame left on
\* disk when the probe raised).
CaptureOutcomes ==
    { [result |-> Returned([width |-> d[1], height |-> d[2],
                            stream_url_host |-> "edge01.balticlivecam.com"]),
       file |-> "data"] : d \in { <<Null, Null>>, <<Some(1920), Some(1080)>> } }
    \cup
    { [result |-> Raised(Exc("DependencyMissingError",
                             <<"Required binary not found in PATH: ffmpeg">>, NoExc)),
       file |-> "empty"],
      [result |-> Raised(CaptureFailure(
                     _run_ffmpeg_capture(URL1,
                                         [kind |-> "timeout", stderr |-> <<>>,
                                          stdout |-> <<>>], "empty"))),
       file |-> "missing"],
      [result |-> Raised(_probe_dimensions(
                     [kind |-> "ok", stderr |-> <<>>,
                      stdout |-> <<"1", SupTwo, "x", "1", "0", "8", "0", "\n">>]).exc),
       file |-> "data"] }

\* What ingest_capture holds after line 40, before detection ran: the count
\* and the dimensions; and, for the properties, what model.predict produced
\* (results) and what count_people_in_image returned.
NoDet ==
    [people_count |-> 0, image_width |-> Null, image_height |-> Null,
     results |-> "none", boxes |-> <<>>,
     returned |-> [people_count |-> 0, image_width |-> Null,
                   image_height |-> Null, person_boxes |-> <<>>]]
NoSweep ==
    [ran |-> FALSE, now |-> 0, cutoff_now |-> 0, before |-> <<>>,
     returned |-> 0, raised |-> FALSE, owed |-> FALSE]

\* What the next cycle starts with: a sweep is owed when this cycle's sweep
\* raised, or when one was owed and none returned in this cycle.
SweepCarried(s) == [NoSweep EXCEPT !.owed = s.raised \/ (s.owed /\ ~s.ran)]

\* The time that may pass between two readings of the clock inside a cycle,
\* in hours; the two readings of the retention step are no further apart
\* from the reading before them.
NowDrift == {0, 1}

\* The values of CAPTURE_INTERVAL_SECONDS the worker is run with, in hours:
\* no pause between cycles, or a day.
Intervals == {0, 24}

WorkerInit ==
    /\ w_pc = "loop"
    /\ clock = INITIAL_RETENTION_AGE_HOURS
    /\ image_ttl_days \in {0, 1}
    /\ last_retention_at = clock - INITIAL_RETENTION_AGE_HOURS
    /\ db = <<>>
    /\ tx = <<>>
    /\ session = "closed"
    /\ next_id = 1
    /\ temp_jpg = "missing"
    /\ capture_result = NoResult
    /\ det = NoDet
    /\ exc = NoExc
    /\ added = <<>>
    /\ propagated = NoExc
    /\ sweep = NoSweep
    /\ cycles = 0
    /\ capture_interval \in Intervals
    /\ loop_started = clock
    /\ trace = <<>>

----------------------------------------------------------------------------
\* The worker loop: run() of worker/main.py with ingest_capture inlined.

DbError == Exc("OperationalError", <<"server closed the connection">>, NoExc)

PendingRollback ==
    Exc("PendingRollbackError",
        <<"This Session's transaction has been rolled back due to a previous ",
          "exception during flush.">>, NoExc)

UnlinkSkipped(file) == file

\* ingest.py:86-87: temp_jpg_path.unlink(missing_ok=True) in the finally clause
unlink(file) == "missing"

CaughtCameraErrorsOnly(e) == e.type \in Retryable

\* main.py:49: except Exception catches e
Caught(e) == TRUE

AfterCaptureAlwaysDetect(result) == "detect"

\* ingest.py:24-30 and 67: where ingest_capture goes after the capture call.
AfterCapture(result) ==
    IF result.kind = "return" THEN "detect" ELSE "persist_error"

\* main.py:30-32 and ingest.py:19-21: the cycle opens a session and
\* ingest_capture creates its (empty) temporary file.
begin_cycle ==
    /\ w_pc = "loop"
    /\ cycles < MaxCycles
    /\ loop_started' = clock
    /\ trace' = <<>>
    /\ UNCHANGED capture_interval
    /\ w_pc' = "capture"
    /\ session' = "active"
    /\ tx' = db
    /\ temp_jpg' = "empty"
    /\ capture_result' = NoResult
    /\ det' = NoDet
    /\ exc' = NoExc
    /\ added' = <<>>
    /\ propagated' = NoExc
    /\ UNCHANGED capvars
    /\ UNCHANGED callvars
    /\ UNCHANGED scriptvars
    /\ UNCHANGED <<clock, image_ttl_days, last_retention_at, db, next_id, sweep,
                   cycles>>

\* ingest.py:24-28
capture ==
    /\ w_pc = "capture"
    /\ \E o \in CaptureOutcomes :
        /\ capture_result' = o.result
        /\ temp_jpg' = o.file
        /\ w_pc' = AfterCapture(o.result)
        /\ IF o.result.kind = "return"
           THEN UNCHANGED exc
           ELSE exc' = o.result.exc
    /\ trace' = Append(trace, "capture")
    /\ UNCHANGED <<capture_interval, loop_started>>
    /\ UNCHANGED capvars
    /\ UNCHANGED callvars
    /\ UNCHANGED scriptvars
    /\ UNCHANGED <<clock, image_ttl_days, last_retention_at, db, tx, session,
                   next_id, det, added, propagated, sweep, cycles>>

RaisesWithoutResults(out) == out.kind \in {"raise", "empty"}

\* yolo.py:97-99: an exception of model.predict leaves count_people_in_image;
\* an empty result list does not.
Raises(out) == out.kind = "raise"

\* ingest.py:30-40: detection, then the fallback to the probed dimensions.
detect ==
    /\ w_pc = "detect"
    /\ \E out \in ModelOutputs :
        IF Raises(out)
        THEN /\ w_pc' = "persist_error"
             /\ exc' = Exc("RuntimeError", <<"inference failed">>, NoExc)
             /\ det' = [NoDet EXCEPT !.results = out.kind]
        ELSE LET r == count_people_in_image(out, capture_result.value.width,
                                            capture_result.value.height)
             IN /\ w_pc' = "annotate"
                /\ det' = [people_count |-> r.people_count,
                           image_width |-> IF r.image_width = Null
                                           THEN capture_result.value.width
                                           ELSE r.image_width,
                           image_height |-> IF r.image_height = Null
                                            THEN capture_result.value.height
                                            ELSE r.image_height,
                           results |-> out.kind,
                           boxes |-> out.boxes,
                           returned |-> r]
                /\ UNCHANGED exc
    /\ trace' = Append(trace, "detect")
    /\ UNCHANGED <<capture_interval, loop_started>>
    /\ UNCHANGED capvars
    /\ UNCHANGED callvars
    /\ UNCHANGED scriptvars
    /\ UNCHANGED <<clock, image_ttl_days, last_retention_at, db, tx, session,
                   next_id, temp_jpg, capture_result, added, propagated, sweep,
                   cycles>>

\* ingest.py:42-47
annotate ==
    /\ w_pc = "annotate"
    /\ \E ok \in BOOLEAN :
        IF ok
        THEN w_pc' = "persist_ok" /\ UNCHANGED exc
        ELSE /\ w_pc' = "persist_error"
             /\ exc' = Exc("UnidentifiedImageError", <<"cannot identify image file">>,
                           NoExc)
    /\ trace' = Append(trace, "annotate")
    /\ UNCHANGED <<capture_interval, loop_started>>
    /\ UNCHANGED capvars
    /\ UNCHANGED callvars
    /\ UNCHANGED scriptvars
    /\ UNCHANGED <<clock, image_ttl_days, last_retention_at, db, tx, session,
                   next_id, temp_jpg, capture_result, det, added, propagated,
                   sweep, cycles>>

\* ingest.py:49-66 and 86-87: the ok row is added and flushed.  A flush that
\* fails rolls the transaction back, expunges the pending row and leaves the
\* session deactivated; the exception goes to the except clause.
persist_ok ==
    /\ w_pc = "persist_ok"
    /\ LET row == OkRow(clock, det.people_count, det.image_width,
                        det.image_height, "png")
       IN /\ added' = Append(added, row)
          /\ \E ok \in BOOLEAN :
              IF ok
              THEN /\ tx' = Flushed(tx, row, next_id)
                   /\ next_id' = next_id + 1
                   /\ temp_jpg' = unlink(temp_jpg)
                   /\ w_pc' = "retention"
                   /\ UNCHANGED <<exc, session>>
              ELSE /\ tx' = db
                   /\ session' = "deactive"
                   /\ exc' = DbError
                   /\ w_pc' = "persist_error"
                   /\ UNCHANGED <<next_id, temp_jpg>>
    /\ db' = VisibleAfterFlush(db, tx')
    /\ trace' = Append(trace, "persist_ok")
    /\ UNCHANGED <<capture_interval, loop_started>>
    /\ UNCHANGED capvars
    /\ UNCHANGED callvars
    /\ UNCHANGED scriptvars
    /\ UNCHANGED <<clock, image_ttl_days, last_retention_at, capture_result,
                   det, propagated, sweep, cycles>>

\* ingest.py:67-87: the error row is added and flushed; a flush that raises
\* leaves ingest_capture, and the with block, with that exception.
persist_error ==
    /\ w_pc = "persist_error"
    /\ LET row == ErrorRow(clock, exc)
       IN /\ added' = Append(added, row)
          /\ temp_jpg' = unlink(temp_jpg)
          /\ IF session = "active"
             THEN \E ok \in BOOLEAN :
                    IF ok
                    THEN /\ tx' = Flushed(tx, row, next_id)
                         /\ next_id' = next_id + 1
                         /\ w_pc' = "retention"
                         /\ UNCHANGED <<propagated, session>>
                    ELSE /\ tx' = db
                         /\ session' = "deactive"
                         /\ propagated' = DbError
                         /\ w_pc' = "rollback"
                         /\ UNCHANGED next_id
             ELSE /\ propagated' = PendingRollback
                  /\ w_pc' = "rollback"
                  /\ UNCHANGED <<tx, session, next_id>>
    /\ db' = VisibleAfterFlush(db, tx')
    /\ trace' = Append(trace, "persist_error")
    /\ UNCHANGED <<capture_interval, loop_started>>
    /\ UNCHANGED capvars
    /\ UNCHANGED callvars
    /\ UNCHANGED scriptvars
    /\ UNCHANGED <<clock, image_ttl_days, last_retention_at, capture_result,
                   det, exc, sweep, cycles>>

RetentionAlwaysDue(now, last) == TRUE

\* main.py:45: now - last_retention_at >= timedelta(hours=24)
RetentionDue(now, last) == now - last >= RETENTION_PERIOD_HOURS

\* main.py:34-48: the log line, then the clock is read again (line 44) and
\* the retention sweep runs when it is due.  prune_old_images reads the clock
\* itself for the cutoff (retention.py:15); last_retention_at takes the
\* reading of line 44.
retention ==
    /\ w_pc = "retention"
    /\ \E e \in NowDrift :
        LET now == clock + e
        IN IF RetentionDue(now, last_retention_at)
           THEN \E e2 \in {d \in NowDrift : e + d \in NowDrift}, ok \in BOOLEAN :
                  LET cutoff_now == now + e2
                  IN /\ clock' = cutoff_now
                     /\ IF ok
                        THEN LET r == prune_old_images(tx, cutoff_now,
                                                       image_ttl_days)
                             IN /\ tx' = r.rows
                                /\ sweep' = [sweep EXCEPT
                                               !.ran = TRUE, !.now = now,
                                               !.cutoff_now = cutoff_now,
                                               !.before = tx,
                                               !.returned = r.count]
                                /\ last_retention_at' = now
                                /\ w_pc' = "commit"
                                /\ UNCHANGED propagated
                        ELSE /\ propagated' = DbError
                             /\ sweep' = [sweep EXCEPT !.raised = TRUE,
                                                       !.now = now]
                             /\ w_pc' = "rollback"
                             /\ UNCHANGED <<tx, last_retention_at>>
           ELSE /\ clock' = now
                /\ w_pc' = "commit"
                /\ UNCHANGED <<tx, sweep, last_retention_at, propagated>>
    /\ trace' = Append(trace, "retention")
    /\ UNCHANGED <<capture_interval, loop_started>>
    /\ UNCHANGED capvars
    /\ UNCHANGED callvars
    /\ UNCHANGED scriptvars
    /\ UNCHANGED <<image_ttl_days, db, session, next_id, temp_jpg,
                   capture_result, det, exc, added, cycles>>

\* session.py:36-43, the normal exit of the with block: commit, or rollback
\* and re-raise when the commit fails; then close.  main.py:49-50 logs what
\* was raised.
commit ==
    /\ w_pc = "commit"
    /\ \E ok \in BOOLEAN :
        IF ok
        THEN /\ db' = tx
             /\ w_pc' = "sleep"
             /\ UNCHANGED <<tx, propagated>>
        ELSE /\ tx' = db
             /\ propagated' = DbError
             /\ w_pc' = IF Caught(DbError) THEN "sleep" ELSE "crashed"
             /\ UNCHANGED db
    /\ session' = "closed"
    /\ cycles' = cycles + 1
    /\ trace' = Append(trace, "commit")
    /\ UNCHANGED <<capture_interval, loop_started>>
    /\ UNCHANGED capvars
    /\ UNCHANGED callvars
    /\ UNCHANGED scriptvars
    /\ capture_result' = NoResult
    /\ det' = NoDet
    /\ exc' = NoExc
    /\ UNCHANGED <<clock, image_ttl_days, last_retention_at, next_id, temp_jpg,
                   added, sweep>>

\* session.py:39-43, the exit of the with block by an exception: rollback,
\* re-raise, close.  main.py:49-50 logs the exception.
rollback ==
    /\ w_pc = "rollback"
    /\ tx' = db
    /\ session' = "closed"
    /\ cycles' = cycles + 1
    /\ w_pc' = IF Caught(propagated) THEN "sleep" ELSE "crashed"
    /\ trace' = Append(trace, "rollback")
    /\ UNCHANGED <<capture_interval, loop_started>>
    /\ UNCHANGED capvars
    /\ UNCHANGED callvars
    /\ UNCHANGED scriptvars
    /\ capture_result' = NoResult
    /\ det' = NoDet
    /\ exc' = NoExc
    /\ UNCHANGED <<clock, image_ttl_days, last_retention_at, db, next_id,
                   temp_jpg, added, propagated, sweep>>

SleepWholeInterval(interval, elapsed) == interval

\* main.py:53: max(0.0, settings.capture_interval_seconds - elapsed)
sleep_seconds(interval, elapsed) ==
    IF interval - elapsed > 0 THEN interval - elapsed ELSE 0

\* main.py:52-54
sleep ==
    /\ w_pc = "sleep"
    /\ clock' = clock + sleep_seconds(capture_interval, clock - loop_started)
    /\ trace' = <<>>
    /\ UNCHANGED <<capture_interval, loop_started>>
    /\ w_pc' = "loop"
    /\ added' = <<>>
    /\ propagated' = NoExc
    /\ sweep' = SweepCarried(sweep)
    /\ UNCHANGED capvars
    /\ UNCHANGED callvars
    /\ UNCHANGED scriptvars
    /\ UNCHANGED <<image_ttl_days, last_retention_at, db, tx, session, next_id,
                   temp_jpg, capture_result, det, exc, cycles>>

WorkerNext ==
    \/ begin_cycle
    \/ capture
    \/ detect
    \/ annotate
    \/ persist_ok
    \/ persist_error
    \/ retention
    \/ commit
    \/ rollback
    \/ sleep

\* The worker alone: no capture_frame_to_file call is being traced.
CaptureIdle ==
    /\ c_pc = "idle"
    /\ c_onpath = TRUE
    /\ c_attempt = 0
    /\ c_last_error = NoExc
    /\ c_pending = NoExc
    /\ c_log = <<>>
    /\ c_result = NoResult
    /\ c_file = "missing"
    /\ c_tool = NoRun
    /\ c_probe = NoRun
    /\ requests = 0
    /\ tool_runs = 0
    /\ s_script = <<>>
    /\ s_attempt = 0
    /\ s_last_error = NoExc
    /\ s_errs = <<>>
    /\ s_result = NoResult
    /\ c_entry = "none"
    /\ b_result = NoResult

Init == WorkerInit /\ CaptureIdle /\ CallIdle /\ ScriptIdle

Next == WorkerNext

Spec == Init /\ [][Next]_vars

\* The worker with the settings under which every step of a cycle has work
\* to do: a day between cycles, so that the loop sleeps and later cycles
\* sweep too, and images kept for no time, so that a sweep finds images due.
LiveInit ==
    /\ Init
    /\ image_ttl_days = 0
    /\ capture_interval = 24

\* The loop is one thread that keeps running, and every step of a cycle
\* terminates: a step that can be taken is eventually taken.
SpecLive == LiveInit /\ [][Next]_vars /\ WF_vars(Next)

----------------------------------------------------------------------------
\* One call of _redact_tokens on a message.

\* Bound: the number of pieces of a message.
MaxMsgLen == 5

\* The pieces messages are made of: the literal "token=", two runs of
\* ordinary characters, four delimiters and the replacement text.
MsgPieces == {TokenMark, "abc123", "zz", "&", " ", "\t", "\"", Redacted}

Messages == UNION { [1..n -> MsgPieces] : n \in 0..MaxMsgLen }

RedactInit ==
    /\ WorkerOff
    /\ CaptureIdle
    /\ ScriptIdle
    /\ f_pc = "call"
    /\ f_arg \in Messages
    /\ f_ret = <<>>

\* balticlivecam.py:259-260
redact_tokens_call ==
    /\ f_pc = "call"
    /\ f_ret' = _redact_tokens(f_arg)
    /\ f_pc' = "return"
    /\ UNCHANGED f_arg
    /\ UNCHANGED capvars
    /\ UNCHANGED workervars
    /\ UNCHANGED scriptvars

\* balticlivecam.py:111-114 after 63-66: the message that was redacted when
\* the discovery error was built is redacted again when that error is
\* wrapped.
redact_tokens_nested ==
    /\ f_pc = "return"
    /\ f_ret' = _redact_tokens(f_ret)
    /\ f_pc' = "nested"
    /\ UNCHANGED f_arg
    /\ UNCHANGED capvars
    /\ UNCHANGED workervars
    /\ UNCHANGED scriptvars

RedactNext == redact_tokens_call \/ redact_tokens_nested

SpecRedact == RedactInit /\ [][RedactNext]_vars

----------------------------------------------------------------------------
\* One call of a function of detection/yolo.py: the arguments are drawn in
\* the initial state, the call leaves the result in f_ret.

\* Bound: the number of vertices of the polygons that are tried.
MaxVertices == 4

\* Bound: the number of detections of one model result.
MaxBoxes == 2

Polygons(points, n) == UNION { [1..k -> points] : k \in 0..n }

GridVertices == { <<0, 0>>, <<4, 0>>, <<4, 4>>, <<0, 4>>, <<2, 2>> }

\* Points in halves, on and around the grid.
GridPoints == { <<x, y>> : x \in {-2, 1, 2, 4, 5, 8, 10}, y \in {-2, 0, 2, 4, 5, 8, 10} }

\* tests/test_count_people_script.py:90-94: the region of the test, and the
\* bottom centres of its two person boxes, (30, 40) and (3, 5), in halves.
TestRegion == << <<10, 10>>, <<90, 10>>, <<90, 90>>, <<10, 90>> >>
TestPoints == { <<60, 80>>, <<6, 10>> }

PointInPolygonArgs(n) ==
    { [fn |-> "point_in_polygon", x |-> p[1], y |-> p[2], polygon |-> g] :
        p \in GridPoints, g \in Polygons(GridVertices, n) }
    \cup { [fn |-> "point_in_polygon", x |-> p[1], y |-> p[2], polygon |-> g] :
             p \in TestPoints, g \in {TestRegion, ROI_POLYGON_BASE} }

ScaleVertices == { <<0, 0>>, <<1510, 641>>, <<303, 465>>, <<-1440, 7>>, <<1919, 1079>> }

\* Frame sizes (width, height): the base resolution, its half, a size whose
\* scale factors are not floats, two narrow frames, and an empty frame.
FrameSizes ==
    { <<1920, 1080>>, <<960, 540>>, <<2592, 1944>>, <<42, 480>>, <<62, 720>>,
      <<0, 0>> }

ScalePolygonArgs(n) ==
    { [fn |-> "scale_polygon", polygon |-> g, frame_width |-> f[1],
       frame_height |-> f[2]] :
        g \in Polygons(ScaleVertices, n) \cup {ROI_POLYGON_BASE, TestRegion},
        f \in FrameSizes }

RoiArgs ==
    { [fn |-> "get_scaled_roi_polygon", image_width |-> w, image_height |-> h] :
        w \in {Null, Some(0), Some(960), Some(1920)},
        h \in {Null, Some(0), Some(540), Some(1080)} }

\* Detections besides PersonIn, PersonOut and Car: a person with coordinates
\* that end in .5, a person whose box reaches from above the region into it,
\* and a person who is inside the region of a 960x540 frame only.
PersonHalf == [cls |-> 0, xyxy |-> <<1961, 1201, 2041, 1401>>]
PersonTall == [cls |-> 0, xyxy |-> <<1960, 600, 2040, 1400>>]
PersonSmallFrame == [cls |-> 0, xyxy |-> <<980, 600, 1020, 700>>]

\* A person whose bottom centre, (2035, 1153), is inside the region of a
\* 2592x1944 frame by the rounding of one vertex.
PersonLargeFrame == [cls |-> 0, xyxy |-> <<4030, 2106, 4110, 2306>>]

Detections ==
    {PersonIn, PersonOut, Car, PersonHalf, PersonTall, PersonSmallFrame,
     PersonLargeFrame}

\* orig_shape as (height, width), or absent.
Shapes ==
    { Null, Some(<<1080, 1920>>), Some(<<540, 960>>), Some(<<0, 0>>),
      Some(<<1080, 0>>), Some(<<1944, 2592>>) }

CallerDimensions == { <<Null, Null>>, <<Some(1920), Some(1080)>>, <<Some(960), Some(540)>> }

CountPeopleArgs ==
    { [fn |-> "count_people_in_image", out |-> o, image_width |-> d[1],
       image_height |-> d[2]] :
        o \in { [kind |-> "empty", shape |-> Null, boxes |-> <<>>] }
              \cup { [kind |-> "result", shape |-> sh, boxes |-> b] :
                       sh \in Shapes,
                       b \in UNION { [1..k -> Detections] : k \in 0..MaxBoxes } },
        d \in CallerDimensions }

YoloInit ==
    /\ WorkerOff
    /\ CaptureIdle
    /\ ScriptIdle
    /\ f_pc = "call"
    /\ \/ f_arg \in PointInPolygonArgs(MaxVertices)
       \/ f_arg \in ScalePolygonArgs(MaxVertices)
       \/ f_arg \in RoiArgs
       \/ f_arg \in CountPeopleArgs
    /\ f_ret = <<>>

scale_polygon_call ==
    /\ f_pc = "call"
    /\ f_arg.fn = "scale_polygon"
    /\ f_ret' = scale_polygon(f_arg.polygon, f_arg.frame_width, f_arg.frame_height)
    /\ f_pc' = "return"
    /\ UNCHANGED f_arg
    /\ UNCHANGED capvars
    /\ UNCHANGED workervars
    /\ UNCHANGED scriptvars

point_in_polygon_call ==
    /\ f_pc = "call"
    /\ f_arg.fn = "point_in_polygon"
    /\ f_ret' = point_in_polygon(f_arg.x, f_arg.y, f_arg.polygon)
    /\ f_pc' = "return"
    /\ UNCHANGED f_arg
    /\ UNCHANGED capvars
    /\ UNCHANGED workervars
    /\ UNCHANGED scriptvars

get_scaled_roi_polygon_call ==
    /\ f_pc = "call"
    /\ f_arg.fn = "get_scaled_roi_polygon"
    /\ f_ret' = get_scaled_roi_polygon(f_arg.image_width, f_arg.image_height)
    /\ f_pc' = "return"
    /\ UNCHANGED f_arg
    /\ UNCHANGED capvars
    /\ UNCHANGED workervars
    /\ UNCHANGED scriptvars

count_people_in_image_call ==
    /\ f_pc = "call"
    /\ f_arg.fn = "count_people_in_image"
    /\ f_ret' = count_people_in_image(f_arg.out, f_arg.image_width,
                                      f_arg.image_height)
    /\ f_pc' = "return"
    /\ UNCHANGED f_arg
    /\ UNCHANGED capvars
    /\ UNCHANGED workervars
    /\ UNCHANGED scriptvars

YoloNext ==
    \/ scale_polygon_call
    \/ point_in_polygon_call
    \/ get_scaled_roi_polygon_call
    \/ count_people_in_image_call

SpecYolo == YoloInit /\ [][YoloNext]_vars

----------------------------------------------------------------------------
\* The time series of the web application: one call of _downsample_points or
\* of the raw branch of _series_data.  A point is its timestamp, and the
\* points of a series are 1, 2, ..., N in chronological order.

\* web/app.py:26
MAX_ALL_POINTS == 1000

\* Bound: the length of the series handed to _downsample_points, and the
\* largest target.
MaxPoints == 12

RawIndexNoLast(i, size, max_points) == round(i * (size - 1), max_points)

\* app.py:57: round(i * (size - 1) / (max_points - 1))
raw_index(i, size, max_points) == round(i * (size - 1), max_points - 1)

TakeAll(points, max_points) == points

\* app.py:48-66.  dedup_indices keeps, in order, every raw index that did not
\* occur before it: the raw indices at the positions first_seen.
_downsample_points(points, max_points) ==
    LET size == Len(points)
    IN IF size <= max_points \/ max_points <= 0 THEN points
       ELSE IF max_points = 1 THEN << points[size] >>
       ELSE LET raw_indices ==
                    [i \in 1..max_points |-> raw_index(i - 1, size, max_points)]
                positions == [i \in 1..max_points |-> i]
                unseen(i) == \A j \in 1..(i - 1) : raw_indices[j] # raw_indices[i]
                first_seen == SelectSeq(positions, unseen)
            IN [k \in 1..Len(first_seen) |-> points[raw_indices[first_seen[k]] + 1]]

\* app.py:45
HTTPException ==
    [type |-> "HTTPException", status_code |-> 400,
     detail |-> "range must be one of: hour, day, month, all"]

\* app.py:35-45: the bucket of a range, or the exception raised for a name
\* that is none of the four.
_range_to_bucket_and_since(range_name) ==
    CASE range_name = "hour" -> Returned("minute")
      [] range_name = "day" -> Returned("raw")
      [] range_name = "month" -> Returned("hour")
      [] range_name = "all" -> Returned("raw")
      [] OTHER -> Raised(HTTPException)

\* app.py:69-100, for the rows the one statement of the call returned: the
\* points of the rows, downsampled for the range 'all'.
_series_data(range_name, rows) ==
    LET bucket == _range_to_bucket_and_since(range_name)
    IN IF bucket.kind = "raise" THEN bucket
       ELSE IF bucket.value = "raw"
       THEN Returned([range |-> range_name,
                      points |-> IF range_name = "all"
                                 THEN _downsample_points(rows, MAX_ALL_POINTS)
                                 ELSE rows])
       ELSE Returned([range |-> range_name, points |-> rows])

Series(n) == [i \in 1..n |-> i]

DownsampleArgs ==
    { [fn |-> "_downsample_points", points |-> Series(n), max_points |-> m] :
        n \in 0..MaxPoints, m \in (-1)..(MaxPoints + 1) }

\* Row counts around MAX_ALL_POINTS and beyond it.
SeriesArgs ==
    { [fn |-> "_series_data", range_name |-> r, rows |-> Series(n)] :
        r \in {"hour", "day", "month", "all", "week", "ALL", ""},
        n \in {0, 1, MAX_ALL_POINTS - 1, MAX_ALL_POINTS, MAX_ALL_POINTS + 1,
               MAX_ALL_POINTS + 500, 2 * MAX_ALL_POINTS + 1} }

SeriesInit ==
    /\ WorkerOff
    /\ CaptureIdle
    /\ ScriptIdle
    /\ f_pc = "call"
    /\ f_arg \in DownsampleArgs \cup SeriesArgs
    /\ f_ret = <<>>

downsample_points_call ==
    /\ f_pc = "call"
    /\ f_arg.fn = "_downsample_points"
    /\ f_ret' = _downsample_points(f_arg.points, f_arg.max_points)
    /\ f_pc' = "return"
    /\ UNCHANGED f_arg
    /\ UNCHANGED capvars
    /\ UNCHANGED workervars
    /\ UNCHANGED scriptvars

series_data_call ==
    /\ f_pc = "call"
    /\ f_arg.fn = "_series_data"
    /\ f_ret' = _series_data(f_arg.range_name, f_arg.rows)
    /\ f_pc' = "return"
    /\ UNCHANGED f_arg
    /\ UNCHANGED capvars
    /\ UNCHANGED workervars
    /\ UNCHANGED scriptvars

SeriesNext ==
    \/ downsample_points_call
    \/ series_data_call

SpecSeries == SeriesInit /\ [][SeriesNext]_vars

----------------------------------------------------------------------------
\* One run of main of scripts/count_people.py.  The script has its own copy
\* of count_people_in_image and get_scaled_roi_polygon (count_people.py:
\* 123-184), line for line that of detection/yolo.py.

\* The working directory of the process.
Cwd == "/work"

\* count_people.py:68-72: --annotated-png is absent, or it is a text: empty,
\* a relative path or an absolute one.
MainArgs ==
    { [annotated_png |-> a] :
        a \in {Null, Some(<<>>), Some(<<"out.png">>), Some(<<"/", "srv/out.png">>)} }

\* count_people.py:272, the truth value of args.annotated_png: false for None
\* and for the empty text.
Truthy(a) == a # Null /\ a[1] # <<>>

\* count_people.py:201 and 213, str(Path(output_path).expanduser().resolve())
\* for a path without ~, dots or links: an absolute path is itself, a
\* relative one is taken from the working directory.
Resolved(output_path) ==
    IF output_path[1] = "/" THEN output_path
    ELSE <<Cwd, "/">> \o output_path

\* count_people.py:216-240: the payload, without its timestamp.
_build_output(people_count, image_width, image_height, annotated_png_path, status, error) ==
    [camera_id |-> 461, model |-> "yolov8n.pt",
     people_count |-> people_count,
     image_width |-> image_width, image_height |-> image_height,
     annotated_png_path |-> annotated_png_path,
     status |-> status, error |-> error]

\* camera/exceptions.py: CameraModuleError and its subclasses.
CameraModuleErrors ==
    {"CameraModuleError", "StreamDiscoveryError", "FrameCaptureError",
     "DependencyMissingError"}

\* count_people.py:293: except CameraModuleError
IsCameraModuleError(e) == e.type \in CameraModuleErrors

\* What print does: it writes the text and then the line end, in two writes
\* to the stream.  Both succeed; or the first raises and nothing is on the
\* stream; or the second raises, with the payload on the stream already.
PrintOutcomes == {"written", "raise", "written_raise"}

BrokenPipe == Exc("BrokenPipeError", <<"[Errno 32] Broken pipe">>, NoExc)

NoCount == <<>>

\* count_people.py:82, the second sentence of the message.
InstallHint ==
    <<"Install dependencies with ", Backquote, "poetry install", Backquote, ".">>

ScriptInit ==
    /\ WorkerOff
    /\ CaptureIdle
    /\ CallIdle
    /\ m_pc = "start"
    /\ m_args \in MainArgs
    /\ m_temp_path = "missing"
    /\ m_capture_result = NoResult
    /\ m_count = NoCount
    /\ m_exc = NoExc
    /\ m_raised_by = "none"
    /\ m_stdout = <<>>
    /\ m_exit = Null

\* The frame of a step of main: nothing but the script moves.
ScriptOnly ==
    /\ UNCHANGED capvars
    /\ UNCHANGED workervars
    /\ UNCHANGED callvars

\* count_people.py:247-249: the temporary file is created, empty.
main_tempfile ==
    /\ m_pc = "start"
    /\ m_temp_path' = "empty"
    /\ m_pc' = "capture"
    /\ UNCHANGED <<m_args, m_capture_result, m_count, m_exc, m_raised_by,
                   m_stdout, m_exit>>
    /\ ScriptOnly

\* count_people.py:252-256
main_capture ==
    /\ m_pc = "capture"
    /\ \E o \in CaptureOutcomes :
        /\ m_temp_path' = o.file
        /\ IF o.result.kind = "return"
           THEN /\ m_capture_result' = o.result
                /\ m_pc' = "load"
                /\ UNCHANGED <<m_exc, m_raised_by>>
           ELSE /\ m_exc' = o.result.exc
                /\ m_raised_by' = "capture"
                /\ m_pc' = "except"
                /\ UNCHANGED m_capture_result
    /\ UNCHANGED <<m_args, m_count, m_stdout, m_exit>>
    /\ ScriptOnly

\* count_people.py:257 and 76-84
main_load_model ==
    /\ m_pc = "load"
    /\ \E ok \in BOOLEAN :
        IF ok
        THEN m_pc' = "count" /\ UNCHANGED <<m_exc, m_raised_by>>
        ELSE /\ m_exc' = Exc("RuntimeError",
                             <<"ultralytics is not installed. ">> \o InstallHint,
                             Exc("ModuleNotFoundError",
                                 <<"No module named 'ultralytics'">>,
                                 NoExc))
             /\ m_raised_by' = "load"
             /\ m_pc' = "except"
    /\ UNCHANGED <<m_args, m_temp_path, m_capture_result, m_count, m_stdout,
                   m_exit>>
    /\ ScriptOnly

\* count_people.py:258-268: detection, then the fallback to the probed
\* dimensions.
main_count ==
    /\ m_pc = "count"
    /\ \E out \in ModelOutputs :
        IF Raises(out)
        THEN /\ m_exc' = Exc("RuntimeError", <<"inference failed">>, NoExc)
             /\ m_raised_by' = "count"
             /\ m_pc' = "except"
             /\ UNCHANGED m_count
        ELSE LET r == count_people_in_image(out, m_capture_result.value.width,
                                            m_capture_result.value.height)
             IN /\ m_count' = [people_count |-> r.people_count,
                               image_width |-> IF r.image_width = Null
                                               THEN m_capture_result.value.width
                                               ELSE r.image_width,
                               image_height |-> IF r.image_height = Null
                                                THEN m_capture_result.value.height
                                                ELSE r.image_height,
                               person_boxes |-> r.person_boxes,
                               annotated_png_path |-> Null]
                /\ m_pc' = "annotate"
                /\ UNCHANGED <<m_exc, m_raised_by>>
    /\ UNCHANGED <<m_args, m_temp_path, m_capture_result, m_stdout, m_exit>>
    /\ ScriptOnly

\* count_people.py:270-278: the annotated image is saved when asked for.
main_annotate ==
    /\ m_pc = "annotate"
    /\ IF ~Truthy(m_args.annotated_png)
       THEN m_pc' = "print" /\ UNCHANGED <<m_count, m_exc, m_raised_by>>
       ELSE \E ok \in BOOLEAN :
              IF ok
              THEN /\ m_count' = [m_count EXCEPT
                                    !.annotated_png_path =
                                        Some(Resolved(m_args.annotated_png[1]))]
                   /\ m_pc' = "print"
                   /\ UNCHANGED <<m_exc, m_raised_by>>
              ELSE /\ m_exc' = Exc("UnidentifiedImageError",
                                   <<"cannot identify image file">>, NoExc)
                   /\ m_raised_by' = "annotate"
                   /\ m_pc' = "except"
                   /\ UNCHANGED m_count
    /\ UNCHANGED <<m_args, m_temp_path, m_capture_result, m_stdout, m_exit>>
    /\ ScriptOnly

\* count_people.py:280-292: the ok payload is printed and 0 is the value to
\* return; a print that raises is inside the try block as well, whether or
\* not the payload was written before it raised.
main_print_ok ==
    /\ m_pc = "print"
    /\ \E p \in PrintOutcomes :
        IF p = "written"
        THEN /\ m_stdout' = Append(m_stdout,
                              _build_output(Some(m_count.people_count),
                                            m_count.image_width,
                                            m_count.image_height,
                                            m_count.annotated_png_path,
                                            "ok", Null))
             /\ m_exit' = Some(0)
             /\ m_pc' = "finally"
             /\ UNCHANGED <<m_exc, m_raised_by>>
        ELSE /\ m_stdout' = IF p = "written_raise"
                              THEN Append(m_stdout,
                                          _build_output(Some(m_count.people_count),
                                                        m_count.image_width,
                                                        m_count.image_height,
                                                        m_count.annotated_png_path,
                                                        "ok", Null))
                              ELSE m_stdout
             /\ m_exc' = BrokenPipe
             /\ m_raised_by' = "print"
             /\ m_pc' = "except"
             /\ UNCHANGED m_exit
    /\ UNCHANGED <<m_args, m_temp_path, m_capture_result, m_count>>
    /\ ScriptOnly

\* count_people.py:293-320: the two except clauses.  A print that raises
\* here leaves main with that exception, the error payload written or not.
main_except ==
    /\ m_pc = "except"
    /\ \E p \in PrintOutcomes :
        IF p = "written"
        THEN /\ m_stdout' = Append(m_stdout,
                              _build_output(Null, Null, Null, Null, "error",
                                            Some(Str(m_exc))))
             /\ m_exit' = IF IsCameraModuleError(m_exc) THEN Some(2) ELSE Some(1)
        ELSE /\ m_stdout' = IF p = "written_raise"
                              THEN Append(m_stdout,
                                          _build_output(Null, Null, Null, Null,
                                                        "error",
                                                        Some(Str(m_exc))))
                              ELSE m_stdout
             /\ UNCHANGED m_exit
    /\ m_pc' = "finally"
    /\ UNCHANGED <<m_args, m_temp_path, m_capture_result, m_count, m_exc,
                   m_raised_by>>
    /\ ScriptOnly

\* count_people.py:321-322: the finally clause, then main returns its code or
\* lets the exception go.
main_finally ==
    /\ m_pc = "finally"
    /\ m_temp_path' = unlink(m_temp_path)
    /\ m_pc' = IF m_exit = Null THEN "raise" ELSE "return"
    /\ UNCHANGED <<m_args, m_capture_result, m_count, m_exc, m_raised_by,
                   m_stdout, m_exit>>
    /\ ScriptOnly

ScriptNext ==
    \/ main_tempfile
    \/ main_capture
    \/ main_load_model
    \/ main_count
    \/ main_annotate
    \/ main_print_ok
    \/ main_except
    \/ main_finally

SpecScript == ScriptInit /\ [][ScriptNext]_vars

----------------------------------------------------------------------------
\* Properties of the worker loop (Spec).

\* C1: every completed cycle has committed exactly one row, so after k
\* completed cycles the table holds exactly k rows.
C1_OneRowPerCycle == Len(db) = cycles

\* C2: when capture, detection or annotation raised, the cycle's one record
\* is an error record: status 'error', people_count, dimensions, both image
\* payloads and both mime types null, error the stringified exception; no ok
\* record was added.
C2_ErrorRecord ==
    (w_pc = "retention" /\ exc.type # "None") =>
        /\ Len(added) = 1
        /\ added[1].status = "error"
        /\ Len(tx) = Len(db) + 1
        /\ LET r == tx[Len(tx)]
           IN /\ r.status = "error"
              /\ r.people_count = Null
              /\ r.image_width = Null
              /\ r.image_height = Null
              /\ r.image_bytes = Null
              /\ r.annotated_image_bytes = Null
              /\ r.image_mime_type = Null
              /\ r.annotated_image_mime_type = Null
              /\ r.error = Some(Str(exc))

\* C3: every record, committed or in the open transaction, is either an ok
\* record with a people_count, or an error record without people_count and
\* without raw and annotated image.
RecordShape(r) ==
    \/ r.status = "ok" /\ r.people_count # Null
    \/ /\ r.status = "error"
       /\ r.people_count = Null
       /\ r.image_bytes = Null
       /\ r.annotated_image_bytes = Null

C3_RecordShape ==
    /\ \A i \in 1..Len(db) : RecordShape(db[i])
    /\ \A i \in 1..Len(tx) : RecordShape(tx[i])

C3_Witness ==
    /\ Len(db) = 2
    /\ db[1].status = "ok" /\ db[1].image_bytes = Null
    /\ db[2].status = "error"

\* Two rows that differ at most in the four image fields.
SameButImages(r, q) ==
    /\ r.id = q.id
    /\ r.captured_at = q.captured_at
    /\ r.camera_id = q.camera_id
    /\ r.people_count = q.people_count
    /\ r.image_width = q.image_width
    /\ r.image_height = q.image_height
    /\ r.status = q.status
    /\ r.error = q.error

\* C4: a retention sweep changes nothing but the four image fields of the
\* rows it sees, and no committed row ever disappears or changes in another
\* field: the set of record ids only grows.
C4_PruneFrame ==
    [][ /\ (w_pc = "retention" =>
              /\ Len(tx') = Len(tx)
              /\ \A i \in 1..Len(tx) : SameButImages(tx[i], tx'[i]))
        /\ Len(db') >= Len(db)
        /\ \A i \in 1..Len(db) : SameButImages(db[i], db'[i]) ]_vars

C4_Witness ==
    /\ w_pc = "sleep"
    /\ sweep.ran
    /\ sweep.returned > 0
    /\ db = tx
    /\ Len(db) = 2

\* C5: after a sweep at time now, the reading the sweep took for its cutoff,
\* every record older than now - max_age has its four image fields null,
\* every other record keeps its image fields, and the returned count is the
\* number of older records that held a payload.
Older(r) == r.captured_at < sweep.cutoff_now - image_ttl_days * HoursPerDay

C5_PruneEffect ==
    (sweep.ran /\ w_pc = "commit") =>
        /\ \A i \in 1..Len(tx) :
             IF Older(sweep.before[i])
             THEN /\ tx[i].image_bytes = Null
                  /\ tx[i].image_mime_type = Null
                  /\ tx[i].annotated_image_bytes = Null
                  /\ tx[i].annotated_image_mime_type = Null
             ELSE tx[i] = sweep.before[i]
        /\ sweep.returned =
             Cardinality({i \in 1..Len(tx) :
                            /\ Older(sweep.before[i])
                            /\ \/ sweep.before[i].image_bytes # Null
                               \/ sweep.before[i].annotated_image_bytes # Null})

\* C6: a second sweep right after a sweep, at the same cutoff, affects zero
\* rows and leaves the table as it is.
C6_PruneIdempotent ==
    (sweep.ran /\ w_pc = "commit") =>
        prune_old_images(tx, sweep.cutoff_now, image_ttl_days)
          = [rows |-> tx, count |-> 0]

C6_Witness ==
    /\ sweep.ran
    /\ w_pc = "commit"
    /\ sweep.returned = 2

----------------------------------------------------------------------------
\* Properties of one capture_frame_to_file call (SpecCapture).

\* An answer of the endpoint from which a stream URL can be taken.
HasUrl(resp) ==
    resp.kind = "body" /\ \E i \in 1..Len(resp.items) : IsStreamUrl(resp.items[i])

\* The first stream URL of an answer.
UrlOf(resp) ==
    MatchedUrl(resp.items[CHOOSE i \in 1..Len(resp.items) :
                            /\ IsStreamUrl(resp.items[i])
                            /\ \A j \in 1..(i - 1) : ~IsStreamUrl(resp.items[j])])

\* C7: when the first request fails and the second succeeds, get_stream_url
\* returns the URL of the second answer after exactly two requests; when the
\* first request succeeds it returns after exactly one.
C7_RetryOnce ==
    (c_pc # "start" /\ s_result.kind # "none") =>
        /\ HasUrl(s_script[1]) =>
             s_result = Returned(UrlOf(s_script[1])) /\ s_attempt = 1
        /\ (~HasUrl(s_script[1]) /\ HasUrl(s_script[2])) =>
             s_result = Returned(UrlOf(s_script[2])) /\ s_attempt = 2

C7_Witness ==
    /\ s_result.kind = "return"
    /\ s_attempt = 2
    /\ ~HasUrl(s_script[1])
    /\ s_result.value = URL2

\* C8: get_stream_url makes at most 2 requests; when both fail it raises one
\* StreamDiscoveryError whose cause is the error of the second request, which
\* depends on the second answer alone.
C8_DiscoveryExhausted ==
    /\ s_attempt <= 2
    /\ Len(s_errs) <= 2
    /\ (c_pc # "start" /\ s_result.kind # "none"
        /\ ~HasUrl(s_script[1]) /\ ~HasUrl(s_script[2])) =>
           /\ s_attempt = 2
           /\ s_result.kind = "raise"
           /\ s_result.exc.type = "StreamDiscoveryError"
           /\ s_result.exc.cause = s_errs[2]
           /\ s_errs[2] = _request_and_extract(s_script[2]).exc
           /\ s_result.exc.msg =
                <<"Unable to discover stream URL from auth_token response.",
                  " Last error: ">> \o _redact_tokens(s_errs[2].msg)
    /\ s_result.kind = "raise" => ~HasUrl(s_script[1]) /\ ~HasUrl(s_script[2])

C8_Witness ==
    /\ s_result.kind = "raise"
    /\ Len(s_errs) = 2
    /\ s_errs[1] # s_errs[2]
    /\ s_script[1].kind = "error"
    /\ s_script[2].kind = "body"

\* capture_frame_to_file has been entered; it has returned or raised.
ToFileEntered == c_pc \notin {"bytes", "start"}
ToFileEnded == c_pc \in {"done", "bytes_done"}

\* C9: when the media tool is not on the path, capture_frame_to_file raises
\* DependencyMissingError at once: no request, no tool run, no attempt.
C9_MissingTool ==
    (ToFileEntered /\ ~c_onpath) =>
        /\ ToFileEnded
        /\ c_result.kind = "raise"
        /\ c_result.exc.type = "DependencyMissingError"
        /\ requests = 0
        /\ tool_runs = 0
        /\ c_attempt = 0
        /\ c_log = <<>>

C9_Witness == c_pc = "done" /\ ~c_onpath /\ c_result.kind = "raise"

\* C10: capture_frame_to_file runs at most 2 attempts; it returns on the first
\* attempt that succeeds, runs a second attempt only if the first failed with
\* StreamDiscoveryError or FrameCaptureError, and after two failed attempts
\* raises one FrameCaptureError whose cause is the error of the second.
C10_CaptureAttempts ==
    /\ c_attempt <= 2
    /\ Len(c_log) <= 2
    /\ tool_runs <= 2
    /\ c_attempt = 2 => (Len(c_log) >= 1 /\ c_log[1].type \in Retryable)
    /\ \A i \in 1..Len(c_log) : c_log[i].type = "ok" =>
           /\ i = Len(c_log)
           /\ ToFileEnded
           /\ c_result.kind = "return"
    /\ (c_pc = "done" /\ c_result.kind = "return") => c_log[Len(c_log)].type = "ok"
    /\ (c_pc = "done" /\ Len(c_log) = 2 /\ c_log[2].type \in Retryable) =>
           /\ c_result.kind = "raise"
           /\ c_result.exc.type = "FrameCaptureError"
           /\ c_result.exc.cause = c_log[2]

C10_Witness ==
    /\ c_pc = "done"
    /\ Len(c_log) = 2
    /\ c_result.kind = "raise"
    /\ c_log[1].type = "FrameCaptureError"
    /\ c_log[2].type = "StreamDiscoveryError"

\* C11: every retry of capture_frame_to_file begins with no file at the
\* output path, and whenever the call raises because an attempt failed, no
\* file remains at the output path.
C11_NoFileLeft ==
    /\ (c_attempt >= 2 /\ c_pc \in {"discover", "ffmpeg"}) => c_file = "missing"
    /\ (c_pc = "done" /\ c_result.kind = "raise" /\ c_attempt >= 1) =>
           c_file = "missing"

\* C12: a tool run that exits non-zero, times out, or exits zero leaving the
\* output file missing or empty makes the attempt fail with
\* FrameCaptureError; the call goes on to the probe, and returns a
\* CaptureResult, only with an output file of non-zero size.
C12_ToolFailure ==
    /\ []((c_pc = "probe" \/ (c_pc = "done" /\ c_result.kind = "return")) =>
             (c_tool.kind = "ok" /\ c_file = "data"))
    /\ [][ c_pc = "ffmpeg" =>
             ((\/ c_tool'.kind \in {"nonzero", "timeout"}
               \/ (c_tool'.kind = "ok" /\ c_file' # "data")) =>
                 /\ c_pc' = "failed"
                 /\ c_pending'.type = "FrameCaptureError"
                 /\ c_result' = c_result) ]_vars

C12_Witness ==
    /\ c_pc = "failed"
    /\ c_tool.kind = "ok"
    /\ c_file = "empty"
    /\ c_pending.type = "FrameCaptureError"

\* The probe's output is the text <decimal digits>x<decimal digits>.
WellFormedDims(output) ==
    \E i \in 2..(Len(output) - 1) :
        /\ output[i] = "x"
        /\ \A j \in (1..Len(output)) \ {i} : IsDecimal(output[j])

\* The probe failed: the tool is absent, could not be launched, timed out,
\* exited non-zero, or printed something that is not a pair of dimensions.
ProbeFailed(run) == run.kind # "ok" \/ ~WellFormedDims(Strip(run.stdout))

\* C13: when the probe of the dimensions fails, capture_frame_to_file still
\* returns a CaptureResult, with width and height both null, without failing
\* or retrying the attempt.
C13_ProbeFailure ==
    (c_pc = "done" /\ c_probe.kind # "none" /\ ProbeFailed(c_probe)) =>
        /\ c_result.kind = "return"
        /\ c_result.value.width = Null
        /\ c_result.value.height = Null
        /\ c_log[Len(c_log)].type = "ok"

----------------------------------------------------------------------------
\* Properties of _redact_tokens (SpecRedact).

\* Piece i of msg lies inside the value of a token occurrence that starts
\* before it.
Covered(msg, i) ==
    \E k \in 1..(i - 1) :
        /\ msg[k] = TokenMark
        /\ \A m \in (k + 1)..i : ~IsDelim(msg[m])

\* A token occurrence starts at piece i: "token=" followed by a value.
StartsAt(msg, i) ==
    /\ msg[i] = TokenMark
    /\ i < Len(msg)
    /\ ~IsDelim(msg[i + 1])
    /\ ~Covered(msg, i)

Starts(msg) == {i \in 1..Len(msg) : StartsAt(msg, i)}

\* The value of the occurrence that starts at i: the pieces up to the next
\* delimiter.
ValueAt(msg, i) ==
    LET last == CHOOSE j \in (i + 1)..Len(msg) :
                    /\ \A m \in (i + 1)..j : ~IsDelim(msg[m])
                    /\ (j = Len(msg) \/ IsDelim(msg[j + 1]))
    IN SubSeq(msg, i + 1, last)

\* part occurs in text as a run of consecutive pieces.
Contains(text, part) ==
    \E p \in 1..(Len(text) - Len(part) + 1) :
        SubSeq(text, p, p + Len(part) - 1) = part

\* The message with every occurrence replaced and every other piece kept.
RECURSIVE ReplacedFrom(_, _)
ReplacedFrom(msg, i) ==
    IF i > Len(msg) THEN <<>>
    ELSE (IF Covered(msg, i) THEN <<>>
          ELSE IF StartsAt(msg, i) THEN <<TokenMark, Redacted>>
          ELSE <<msg[i]>>) \o ReplacedFrom(msg, i + 1)

\* C14 as stated: for a message with a token occurrence, the result contains
\* token=<redacted>, does not contain the value of any occurrence, and the
\* text outside the occurrences is unchanged.
C14_Redacted ==
    (f_pc = "return" /\ Starts(f_arg) # {}) =>
        /\ Contains(f_ret, <<TokenMark, Redacted>>)
        /\ \A i \in Starts(f_arg) : ~Contains(f_ret, ValueAt(f_arg, i))
        /\ f_ret = ReplacedFrom(f_arg, 1)

\* C14 amended: for a message with a token occurrence, the result contains
\* token=<redacted>, contains no "token=" followed by the value of an
\* occurrence (or by any other value), and the text outside the occurrences
\* is unchanged, a copy of the value outside an occurrence included.
C14_RedactedOccurrences ==
    (f_pc = "return" /\ Starts(f_arg) # {}) =>
        /\ Contains(f_ret, <<TokenMark, Redacted>>)
        /\ \A i \in Starts(f_arg) :
              ~Contains(f_ret, <<TokenMark>> \o ValueAt(f_arg, i))
        /\ Starts(f_ret) = {}
        /\ f_ret = ReplacedFrom(f_arg, 1)

C14_Witness ==
    /\ f_pc = "return"
    /\ f_arg = <<TokenMark, "abc123", " ", "abc123">>
    /\ f_ret = <<TokenMark, Redacted, " ", "abc123">>

----------------------------------------------------------------------------
\* The stream token in error messages (SpecCapture).

\* The token values that occur in the answers of the endpoint and in the
\* error texts of the network and of the tool.
TokenValues == {"abc123", "zzz999", "supersecret"}

\* The text carries a token value.
Surfaces(text) == \E i \in 1..Len(text) : text[i] \in TokenValues

\* The text carries "token=" followed by a value.
SurfacesOccurrence(text) ==
    \E i \in 1..(Len(text) - 1) : text[i] = TokenMark /\ ~IsDelim(text[i + 1])

\* The exceptions of the camera module raised so far by get_stream_url,
\* _run_ffmpeg_capture and capture_frame_to_file.
RaisedSoFar ==
    {e \in {c_pending, c_last_error, s_last_error} : e.type # "None"}
    \cup {c_log[i] : i \in {j \in 1..Len(c_log) : c_log[j].type # "ok"}}
    \cup {s_errs[i] : i \in 1..Len(s_errs)}
    \cup (IF c_result.kind = "raise" THEN {c_result.exc} ELSE {})
    \cup (IF s_result.kind = "raise" THEN {s_result.exc} ELSE {})

\* C15 as stated: no message of an exception raised by get_stream_url or
\* capture_frame_to_file, and no error text that ingest_capture would persist
\* for it, contains a token value.
C15_TokenNeverSurfaced ==
    \A e \in RaisedSoFar :
        /\ ~Surfaces(Str(e))
        /\ ~Surfaces(ErrorRow(0, e).error[1])

\* C15 amended: no such message and no such error text contains "token="
\* followed by a token value; every token= occurrence of the network and
\* tool error texts appears as token=<redacted>.
C15_TokenOccurrenceNeverSurfaced ==
    \A e \in RaisedSoFar :
        /\ ~SurfacesOccurrence(Str(e))
        /\ ~SurfacesOccurrence(ErrorRow(0, e).error[1])

C15_Witness ==
    /\ c_pc = "done"
    /\ c_result.kind = "raise"
    /\ c_tool.kind = "nonzero"
    /\ Surfaces(c_tool.stderr)
    /\ Contains(Str(c_result.exc), <<TokenMark, Redacted>>)
    /\ c_log[1].type = "StreamDiscoveryError"
    /\ Contains(Str(c_log[1]), <<TokenMark, Redacted>>)

----------------------------------------------------------------------------
\* The ingestion cycle and the worker loop (Spec, SpecLive).

\* The phase a step of the cycle belongs to: 1 CAPTURING, 2 DETECTING,
\* 3 PERSISTING, 4 DONE.
Phase(step) ==
    CASE step = "capture" -> 1
      [] step \in {"detect", "annotate"} -> 2
      [] step \in {"persist_ok", "persist_error"} -> 3
      [] OTHER -> 4

Times(step) == Cardinality({i \in 1..Len(trace) : trace[i] = step})

\* C16: the steps of a cycle go through CAPTURING, DETECTING, PERSISTING,
\* DONE in that order; detection starts only after a capture that returned;
\* once capture or detection has failed the cycle is persisting the error
\* record or past it; capture and detection run at most once per cycle.
C16_PhaseOrder ==
    /\ [](/\ \A i, j \in 1..Len(trace) :
               i < j => Phase(trace[i]) <= Phase(trace[j])
          /\ trace # <<>> => trace[1] = "capture"
          /\ Times("capture") <= 1
          /\ Times("detect") <= 1
          /\ w_pc = "detect" => capture_result.kind = "return")
    /\ [][ (w_pc \in {"capture", "detect"} /\ exc'.type # "None") =>
              w_pc' = "persist_error" ]_vars

C16_Witness ==
    /\ w_pc = "retention"
    /\ trace = <<"capture", "detect", "persist_error">>
    /\ exc.type = "RuntimeError"

\* C17: once ingest_capture has exited, by its return after the ok record or
\* the error record, or by the exception of a failed flush of the error
\* record (also after a failed flush of the ok record), its temporary JPEG
\* does not exist.
C17_TempFileRemoved ==
    w_pc \in {"retention", "commit", "rollback", "sleep", "loop", "crashed"} =>
        temp_jpg = "missing"

C17_Witness ==
    /\ w_pc = "rollback"
    /\ trace = <<"capture", "detect", "annotate", "persist_ok", "persist_error">>
    /\ propagated = PendingRollback
    /\ temp_jpg = "missing"

\* C18: every cycle that starts comes to its end, whatever it raised in
\* ingestion, retention or commit, and after every cycle the loop starts the
\* next one (as long as the model's bound on the number of cycles allows).
C18_WorkerNeverStops ==
    /\ (w_pc = "capture") ~> (w_pc = "sleep")
    /\ (w_pc = "sleep" /\ cycles < MaxCycles) ~> (w_pc = "capture")

C18_Witness ==
    /\ w_pc = "capture"
    /\ cycles = 1
    /\ db = <<>>

\* The step of the cycle that raised what reached the catch-all handler.
RaisedBy ==
    LET steps == SelectSeq(trace, LAMBDA t : t # "rollback")
    IN steps[Len(steps)]

\* C19: whatever reaches the catch-all handler of the worker loop was raised
\* while persisting the error record.
C19_OnlyErrorRecordFailurePropagates ==
    propagated.type # "None" => RaisedBy = "persist_error"

\* The steps between the opening of the session and its close.
InCycle == {"capture", "detect", "annotate", "persist_ok", "persist_error",
            "retention", "commit", "rollback"}

\* C20: one cycle at a time.  A session is open exactly while a cycle is
\* between its start and its commit or rollback; a cycle starts only from
\* the top of the loop, which is reached only by the sleep that follows the
\* commit or rollback and close of the previous cycle; that sleep lasts
\* max(0, interval - elapsed), zero when the cycle took longer than the
\* interval.
C20_OneCycleAtATime ==
    /\ [](/\ (session # "closed") <=> (w_pc \in InCycle)
          /\ w_pc \in {"sleep", "loop"} => tx = db
          /\ w_pc = "sleep" =>
                trace[Len(trace)] \in {"commit", "rollback"})
    /\ [][ /\ (w_pc' = "capture" /\ w_pc # "capture") =>
                (w_pc = "loop" /\ session = "closed" /\ cycles' = cycles)
           /\ (w_pc' = "loop" /\ w_pc # "loop") => w_pc = "sleep"
           /\ w_pc = "sleep" =>
                LET elapsed == clock - loop_started
                IN /\ elapsed < capture_interval =>
                        clock' = clock + (capture_interval - elapsed)
                   /\ elapsed >= capture_interval => clock' = clock ]_vars

C20_Witness ==
    /\ w_pc = "capture"
    /\ cycles = 1
    /\ capture_interval = 0
    /\ clock = INITIAL_RETENTION_AGE_HOURS + 1
    /\ loop_started = clock

----------------------------------------------------------------------------
\* C21: the retention sweep is attempted in a cycle only when the clock read
\* for it is at least 24 hours past last_retention_at; a sweep that completed
\* moves last_retention_at to that reading, so that no sweep runs in the 24
\* hours that follow it, and nothing else moves last_retention_at; and the
\* sweep step comes right after the cycle's ingestion step, inside the cycle.
SweepAttempted ==
    w_pc = "retention" /\ (sweep'.ran \/ w_pc' = "rollback")

Between(lo, t, hi) == lo <= t /\ t <= hi

C21_SweepOncePerDay ==
    /\ [](w_pc = "retention" =>
            /\ Len(trace) > 0
            /\ trace[Len(trace)] \in {"persist_ok", "persist_error"})
    /\ [](sweep.ran => last_retention_at = sweep.now)
    /\ [][ /\ SweepAttempted =>
                /\ Between(clock, sweep'.now, clock')
                /\ sweep'.now - last_retention_at >= RETENTION_PERIOD_HOURS
           /\ last_retention_at' # last_retention_at =>
                /\ w_pc = "retention"
                /\ sweep'.ran
                /\ last_retention_at' = sweep'.now ]_vars

\* A second cycle that began less than a day after the sweep of the first
\* cycle and went through its retention step without a sweep.
C21_Witness ==
    /\ cycles = 1
    /\ w_pc = "commit"
    /\ trace[Len(trace)] = "retention"
    /\ ~sweep.ran
    /\ last_retention_at >= INITIAL_RETENTION_AGE_HOURS
    /\ clock - last_retention_at < RETENTION_PERIOD_HOURS

----------------------------------------------------------------------------
\* C22: the rows a concurrent reader of the store can see (db) change only at
\* the commit of a cycle's transaction, and then to the whole of what the
\* session had written: the cycle's record appears at that moment with its id
\* and every column, exactly as it was flushed or as the same transaction's
\* sweep left it; a cycle that is rolled back changes nothing a reader sees.
CaptureColumns ==
    {"id", "captured_at", "camera_id", "people_count", "image_width",
     "image_height", "image_bytes", "image_mime_type", "annotated_image_bytes",
     "annotated_image_mime_type", "status", "error"}

CompleteRecord(row) ==
    /\ DOMAIN row = CaptureColumns
    /\ row.id > 0
    /\ row.camera_id = 461
    /\ \/ row.status = "ok" /\ row.people_count # Null /\ row.error = Null
       \/ row.status = "error" /\ row.people_count = Null /\ row.error # Null

C22_AtomicRecord ==
    /\ [](\A i \in 1..Len(db) : CompleteRecord(db[i]))
    /\ [][ /\ db' # db =>
                /\ w_pc = "commit"
                /\ db' = tx
                /\ Len(db') = Len(db) + 1
                /\ \A i \in 1..Len(db) : db'[i].id = db[i].id
           /\ w_pc = "rollback" => db' = db ]_vars

\* One cycle was committed and its record is visible; the next cycle flushed
\* a record and was rolled back, and the reader still sees the one record.
C22_Witness ==
    /\ w_pc = "sleep"
    /\ cycles = 2
    /\ Len(db) = 1
    /\ Len(added) > 0
    /\ trace[Len(trace)] = "rollback"
    /\ next_id = 3

----------------------------------------------------------------------------
\* Properties of the functions of detection/yolo.py (SpecYolo).

CountReturned == f_pc = "return" /\ f_arg.fn = "count_people_in_image"

\* The boxes of the detections of class 0, coordinates rounded, in detection
\* order.
PersonBoxes(out) ==
    LET persons == SelectSeq(out.boxes, LAMBDA b : b.cls = 0)
    IN [k \in 1..Len(persons) |-> [c \in 1..4 |-> round(persons[k].xyxy[c], 2)]]

\* The boxes whose bottom centre ((x1 + x2) / 2, y2) lies inside the base
\* region scaled to width x height.
InsideRoi(boxes, width, height) ==
    SelectSeq(boxes,
              LAMBDA box : point_in_polygon(box[1] + box[3], 2 * box[4],
                               scale_polygon(ROI_POLYGON_BASE, width, height)))

Resolvable(width, height) ==
    /\ width # Null /\ width # Some(0)
    /\ height # Null /\ height # Some(0)

\* C23: count_people_in_image returns boxes of class-0 detections only, and
\* when the region is resolvable for the dimensions it returns, the returned
\* boxes are exactly the person boxes whose bottom centre lies inside the
\* region scaled to those dimensions, in detection order, and the count is
\* their number.
C23_CountInsideRoi ==
    (CountReturned /\ f_arg.out.kind = "result") =>
        /\ \A k \in 1..Len(f_ret.person_boxes) :
             \E n \in 1..Len(f_arg.out.boxes) :
                /\ f_arg.out.boxes[n].cls = 0
                /\ f_ret.person_boxes[k] =
                     [c \in 1..4 |-> round(f_arg.out.boxes[n].xyxy[c], 2)]
        /\ Resolvable(f_ret.image_width, f_ret.image_height) =>
             /\ f_ret.person_boxes =
                  InsideRoi(PersonBoxes(f_arg.out), f_ret.image_width[1],
                            f_ret.image_height[1])
             /\ f_ret.people_count = Len(f_ret.person_boxes)

\* A 1920x1080 frame with a person whose box reaches from above the region to
\* a bottom centre inside it, and a person outside: the first is counted.
C23_Witness ==
    /\ CountReturned
    /\ f_arg.out.shape = Some(<<1080, 1920>>)
    /\ f_arg.out.boxes = <<PersonTall, PersonOut>>
    /\ f_ret.people_count = 1
    /\ f_ret.person_boxes = << <<980, 300, 1020, 700>> >>

\* C24 (as claimed): the dimensions count_people_in_image returns, and
\* computes the region from, are the model's reported frame shape when there
\* is one and the width and height the caller passed otherwise.
C24_ResolvedDimensions ==
    (CountReturned /\ f_arg.out.kind = "result") =>
        LET width == IF f_arg.out.shape # Null
                     THEN Some(f_arg.out.shape[1][2]) ELSE f_arg.image_width
            height == IF f_arg.out.shape # Null
                      THEN Some(f_arg.out.shape[1][1]) ELSE f_arg.image_height
        IN /\ f_ret.image_width = width
           /\ f_ret.image_height = height
           /\ Resolvable(width, height) =>
                f_ret.person_boxes =
                    InsideRoi(PersonBoxes(f_arg.out), width[1], height[1])

----------------------------------------------------------------------------
\* C25 (Spec): when model.predict produced no results, count_people_in_image
\* returned (0, null, null, []) and raised nothing: the cycle goes on to the
\* annotation, not to the error record; the record ingest_capture then builds
\* and flushes has status 'ok' and people_count 0, and it is the record that
\* the commit of the cycle makes visible.
NoResults == det.results = "empty"

LastRow(rows) == rows[Len(rows)]

OkWithZero(row) == row.status = "ok" /\ row.people_count = Some(0)

C25_NoResultsCountZero ==
    /\ [](NoResults =>
            /\ det.returned = [people_count |-> 0, image_width |-> Null,
                               image_height |-> Null, person_boxes |-> <<>>]
            /\ det.people_count = 0
            /\ (w_pc \in {"retention", "commit"} /\ exc = NoExc) =>
                 OkWithZero(LastRow(tx)))
    /\ [][ /\ (w_pc = "detect" /\ det'.results = "empty") =>
                 (w_pc' = "annotate" /\ exc' = NoExc)
           /\ (w_pc = "persist_ok" /\ NoResults) =>
                 OkWithZero(LastRow(added'))
           /\ (w_pc = "commit" /\ NoResults /\ exc = NoExc /\ db' # db) =>
                 OkWithZero(LastRow(db')) ]_vars

\* A cycle without results is at its commit with the ok record flushed.
C25_Witness ==
    /\ w_pc = "commit"
    /\ NoResults
    /\ exc = NoExc
    /\ OkWithZero(LastRow(tx))
    /\ LastRow(tx).image_width = Some(1920)

----------------------------------------------------------------------------
\* C26 (SpecYolo): for a polygon of fewer than 3 vertices point_in_polygon
\* returns false, whatever the point.
C26_DegeneratePolygon ==
    (f_pc = "return" /\ f_arg.fn = "point_in_polygon" /\ Len(f_arg.polygon) < 3)
        => f_ret = FALSE

\* The point (1, 1) on the segment from (0, 0) to (2, 2), given as a polygon
\* of two vertices.
C26_Witness ==
    /\ f_pc = "return"
    /\ f_arg.fn = "point_in_polygon"
    /\ f_arg.polygon = << <<0, 0>>, <<2, 2>> >>
    /\ f_arg.x = 2
    /\ f_arg.y = 2
    /\ f_ret = FALSE

\* C27 (SpecYolo): scale_polygon at the base resolution returns the polygon
\* it was given; at every frame size the result has the vertices of the
\* polygon in the same number and order, the x of each scaled by
\* width / ROI_BASE_WIDTH and the y by height / ROI_BASE_HEIGHT, each rounded
\* to an integer (at most one half away from the exact product).
Nearest(result, value, num, den) ==
    /\ 2 * (result * den - value * num) <= den
    /\ 2 * (value * num - result * den) <= den

C27_ScalePolygon ==
    (f_pc = "return" /\ f_arg.fn = "scale_polygon") =>
        /\ (f_arg.frame_width = ROI_BASE_WIDTH
              /\ f_arg.frame_height = ROI_BASE_HEIGHT) => f_ret = f_arg.polygon
        /\ Len(f_ret) = Len(f_arg.polygon)
        /\ \A i \in 1..Len(f_ret) :
             /\ Nearest(f_ret[i][1], f_arg.polygon[i][1], f_arg.frame_width,
                        ROI_BASE_WIDTH)
             /\ Nearest(f_ret[i][2], f_arg.polygon[i][2], f_arg.frame_height,
                        ROI_BASE_HEIGHT)

\* The region of interest at half the base resolution: 303 / 2 and 465 / 2
\* are ties, 354 / 2 is exact.
C27_Witness ==
    /\ f_pc = "return"
    /\ f_arg.fn = "scale_polygon"
    /\ f_arg.polygon = ROI_POLYGON_BASE
    /\ f_arg.frame_width = 960
    /\ f_arg.frame_height = 540
    /\ f_ret[1] = <<152, 232>>
    /\ f_ret[2] = <<177, 232>>
    /\ Len(f_ret) = 12

\* C28 (SpecYolo): get_scaled_roi_polygon returns nothing exactly when the
\* width or the height is null or zero, and the base polygon scaled to
\* (width, height) otherwise; and when there is no region for the dimensions
\* count_people_in_image returns, it returns every person box, unfiltered.
C28_RoiAbsent ==
    /\ (f_pc = "return" /\ f_arg.fn = "get_scaled_roi_polygon") =>
          /\ f_ret = Null <=> ~Resolvable(f_arg.image_width, f_arg.image_height)
          /\ f_ret # Null =>
               /\ Len(f_ret[1]) = Len(ROI_POLYGON_BASE)
               /\ \A i \in 1..Len(ROI_POLYGON_BASE) :
                    /\ Nearest(f_ret[1][i][1], ROI_POLYGON_BASE[i][1],
                               f_arg.image_width[1], ROI_BASE_WIDTH)
                    /\ Nearest(f_ret[1][i][2], ROI_POLYGON_BASE[i][2],
                               f_arg.image_height[1], ROI_BASE_HEIGHT)
    /\ (CountReturned /\ f_arg.out.kind = "result"
          /\ ~Resolvable(f_ret.image_width, f_ret.image_height)) =>
          /\ f_ret.person_boxes = PersonBoxes(f_arg.out)
          /\ f_ret.people_count = Len(PersonBoxes(f_arg.out))

\* A result whose reported shape has width 0: both persons are returned,
\* the one outside the region too.
C28_Witness ==
    /\ CountReturned
    /\ f_arg.out.shape = Some(<<1080, 0>>)
    /\ f_arg.out.boxes = <<PersonOut, PersonIn>>
    /\ f_ret.people_count = 2

----------------------------------------------------------------------------
\* Properties of the time series of the web application (SpecSeries).

DownsampleReturned == f_pc = "return" /\ f_arg.fn = "_downsample_points"

HasPoint(result, point) == \E k \in 1..Len(result) : result[k] = point

\* The points of the result are points of the series, later ones after
\* earlier ones, none twice.
Chronological(result, points) ==
    /\ \A k \in 1..Len(result) : HasPoint(points, result[k])
    /\ \A k, l \in 1..Len(result) : k < l => result[k] < result[l]

\* C29 (as claimed): for a series of N >= 1 points and a target M with
\* 1 <= M <= N the result of _downsample_points contains the first and the
\* last point of the series and lists points of the series in chronological
\* order, each at most once.
C29_FirstAndLast ==
    (DownsampleReturned /\ Len(f_arg.points) >= 1 /\ f_arg.max_points >= 1
       /\ f_arg.max_points <= Len(f_arg.points)) =>
        /\ HasPoint(f_ret, f_arg.points[1])
        /\ HasPoint(f_ret, f_arg.points[Len(f_arg.points)])
        /\ Chronological(f_ret, f_arg.points)

\* C29 (amended): for a series of N >= 1 points and a target M with
\* 1 <= M <= N the result contains the last point of the series and, when
\* M >= 2 or N = 1, the first one, and lists points of the series in
\* chronological order, each at most once.
C29_LastAndFirstFromTwo ==
    (DownsampleReturned /\ Len(f_arg.points) >= 1 /\ f_arg.max_points >= 1
       /\ f_arg.max_points <= Len(f_arg.points)) =>
        /\ HasPoint(f_ret, f_arg.points[Len(f_arg.points)])
        /\ (f_arg.max_points >= 2 \/ Len(f_arg.points) = 1) =>
             HasPoint(f_ret, f_arg.points[1])
        /\ Chronological(f_ret, f_arg.points)

\* Twelve points sampled down to five: two of the raw indices are ties.
C29_Witness ==
    /\ DownsampleReturned
    /\ Len(f_arg.points) = 12
    /\ f_arg.max_points = 5
    /\ f_ret = <<1, 4, 7, 9, 12>>

\* C30: for every max_points >= 1 the result of _downsample_points has at
\* most max_points points and is the series itself when the series has at
\* most max_points points; and the points _series_data returns for the range
\* 'all' are never more than MAX_ALL_POINTS.
C30_AtMostMaxPoints ==
    /\ (DownsampleReturned /\ f_arg.max_points >= 1) =>
          /\ Len(f_ret) <= f_arg.max_points
          /\ Len(f_arg.points) <= f_arg.max_points => f_ret = f_arg.points
    /\ (f_pc = "return" /\ f_arg.fn = "_series_data"
          /\ f_arg.range_name = "all") =>
          /\ f_ret.kind = "return"
          /\ Len(f_ret.value.points) <= MAX_ALL_POINTS
          /\ Len(f_arg.rows) <= MAX_ALL_POINTS =>
                f_ret.value.points = f_arg.rows

\* 2001 rows for the range 'all' come back as 1000 points, the first and the
\* last row among them.
C30_Witness ==
    /\ f_pc = "return"
    /\ f_arg.fn = "_series_data"
    /\ f_arg.range_name = "all"
    /\ Len(f_arg.rows) = 2 * MAX_ALL_POINTS + 1
    /\ Len(f_ret.value.points) = MAX_ALL_POINTS
    /\ f_ret.value.points[1] = 1
    /\ f_ret.value.points[MAX_ALL_POINTS] = 2 * MAX_ALL_POINTS + 1

----------------------------------------------------------------------------
\* Further properties of capture_frame_to_file (SpecCapture, SpecCaptureLive).

\* The launch of the media tool raised FileNotFoundError although the path
\* check had passed.
MissingAtLaunch == c_onpath /\ c_tool.kind = "notfound"

\* C32 (as claimed): when the tool turns out to be missing at the launch of
\* an attempt, capture_frame_to_file raises DependencyMissingError from that
\* attempt, no further attempt runs, and the call has made at most one tool
\* invocation.
C32_MissingToolNotRetried ==
    /\ [](MissingAtLaunch =>
            /\ ToFileEnded
            /\ c_result = Raised(_run_ffmpeg_capture(s_result.value, c_tool, c_file))
            /\ c_result.exc.type = "DependencyMissingError"
            /\ Len(c_log) = c_attempt
            /\ c_log[c_attempt] = c_result.exc
            /\ tool_runs <= 1)
    /\ [][MissingAtLaunch => UNCHANGED <<c_attempt, c_log, tool_runs, requests>>]_vars

\* C32 (amended): as above, and the call has made at most one tool
\* invocation besides the launch that failed.
C32_MissingToolEndsCall ==
    /\ [](MissingAtLaunch =>
            /\ ToFileEnded
            /\ c_result = Raised(_run_ffmpeg_capture(s_result.value, c_tool, c_file))
            /\ c_result.exc.type = "DependencyMissingError"
            /\ Len(c_log) = c_attempt
            /\ c_log[c_attempt] = c_result.exc
            /\ tool_runs - 1 <= 1)
    /\ [][MissingAtLaunch => UNCHANGED <<c_attempt, c_log, tool_runs, requests>>]_vars

\* The first attempt ran the tool and failed, the launch of the second
\* attempt found no tool.
C32_Witness ==
    /\ MissingAtLaunch
    /\ c_pc = "done"
    /\ c_attempt = 2
    /\ tool_runs = 2
    /\ c_log[1].type = "FrameCaptureError"
    /\ c_result.exc.type = "DependencyMissingError"

\* C37: one call of capture_frame_to_file makes at most 2 tool invocations
\* and at most 4 authentication requests, at most 2 of them in one attempt,
\* and it terminates.
C37_BoundedCall ==
    /\ [](/\ tool_runs <= 2
          /\ requests <= 4
          /\ s_attempt <= 2
          /\ c_attempt <= 2)
    /\ <>(c_pc = "done")

\* Both attempts used both of their requests and then ran the tool.
C37_Witness ==
    /\ c_pc = "done"
    /\ tool_runs = 2
    /\ requests = 4

\* C39: in the CaptureResult that capture_frame_to_file returns the width is
\* null exactly when the height is null.
C39_DimensionsTogether ==
    (c_pc = "done" /\ c_result.kind = "return") =>
        (c_result.value.width = Null <=> c_result.value.height = Null)

\* The probe printed a width and no height; both dimensions are null.
C39_Witness ==
    /\ c_pc = "done"
    /\ c_result.kind = "return"
    /\ c_probe.kind = "ok"
    /\ c_probe.stdout = <<"1", "9", "2", "0", "x", "\n">>
    /\ c_result.value.width = Null
    /\ c_result.value.height = Null

----------------------------------------------------------------------------
\* Nested redaction (SpecRedact).

\* C40: _redact_tokens is idempotent: redacting a redacted message again
\* leaves it as it is.
C40_Idempotent ==
    /\ [][f_pc = "return" => f_ret' = f_ret]_vars
    /\ [](f_pc = "nested" => f_ret = _redact_tokens(f_arg))

\* A message with two token occurrences was redacted twice; the first
\* redaction changed it, the second did not.
C40_Witness ==
    /\ f_pc = "nested"
    /\ f_arg = <<TokenMark, "abc123", "&", TokenMark, "zz">>
    /\ f_ret = <<TokenMark, Redacted, "&", TokenMark, Redacted>>

----------------------------------------------------------------------------
\* Horizontal edges in point_in_polygon (SpecYolo).

\* The vertex before vertex i, the last one for the first.
Before(polygon, i) == IF i = 1 THEN Len(polygon) ELSE i - 1

Horizontal(polygon, i) == polygon[i][2] = polygon[Before(polygon, i)][2]

\* The edge that ends at vertex i is counted as crossed for the point (x, y).
Crossed(x, y, polygon, i) ==
    intersects(x, y, polygon[i][1], polygon[i][2],
               polygon[Before(polygon, i)][1], polygon[Before(polygon, i)][2])

\* C38: in point_in_polygon a horizontal edge is never counted as a crossing,
\* so the result is the parity of the crossed edges that are not horizontal,
\* for which the divisor is yj - yi and not zero.
C38_HorizontalEdgeNeverCrossed ==
    (f_pc = "return" /\ f_arg.fn = "point_in_polygon" /\ Len(f_arg.polygon) >= 3)
    => LET g == f_arg.polygon
           edges == 1..Len(g)
       IN /\ \A i \in edges :
                Horizontal(g, i) => ~Crossed(f_arg.x, f_arg.y, g, i)
          /\ f_ret = (Cardinality({i \in edges :
                                     /\ ~Horizontal(g, i)
                                     /\ Crossed(f_arg.x, f_arg.y, g, i)}) % 2 = 1)

\* The point (-1, 0) lies on the line of the bottom edge of the square, to
\* the left of it.
C38_Witness ==
    /\ f_pc = "return"
    /\ f_arg.fn = "point_in_polygon"
    /\ f_arg.polygon = << <<0, 0>>, <<4, 0>>, <<4, 4>>, <<0, 4>> >>
    /\ f_arg.x = -2
    /\ f_arg.y = 0
    /\ f_ret = FALSE

----------------------------------------------------------------------------
\* Failures of persistence and of retention inside a cycle (Spec, SpecLive).

\* The flush of this cycle's ok record failed.
OkFlushFailed ==
    /\ Len(added) >= 1
    /\ added[1].status = "ok"
    /\ session = "deactive"

\* C33: when the flush of the ok record fails, ingest_capture goes on as
\* after a capture failure: it adds an error record that carries the text of
\* the persistence error and flushes it; the ok record is not part of the
\* transaction and nothing of the cycle is committed with the error record.
C33_OkFlushFailureHandled ==
    /\ [](OkFlushFailed =>
            /\ tx = db
            /\ exc = DbError
            /\ w_pc \in {"persist_error", "rollback"}
            /\ w_pc = "rollback" =>
                 /\ Len(added) = 2
                 /\ added[2] = ErrorRow(added[2].captured_at, DbError)
                 /\ added[2].error = Some(<<"server closed the connection">>))
    /\ [][(w_pc = "persist_ok" /\ session' = "deactive") =>
            (w_pc' = "persist_error" /\ OkFlushFailed')]_vars
    /\ [][OkFlushFailed => db' = db]_vars

\* The ok record could not be flushed, the error record was added, and the
\* flush of the error record was refused by the session.
C33_Witness ==
    /\ OkFlushFailed
    /\ w_pc = "rollback"
    /\ Len(added) = 2
    /\ added[2].status = "error"
    /\ propagated = PendingRollback

\* This cycle's retention sweep raised: the with block is being left.
SweepRaised == w_pc = "rollback" /\ sweep.raised

\* C34 (as claimed): the capture record that ingest_capture flushed in this
\* cycle is committed even when the retention sweep of the cycle raises.
C34_RecordSurvivesSweepFailure ==
    [][SweepRaised =>
         /\ Len(db') = Len(tx)
         /\ \A i \in 1..Len(tx) : db'[i] = tx[i]]_vars

\* The cycle has run to its end.
CycleOver == w_pc \in {"sleep", "crashed"}

\* C35 (as claimed): when the sweep raises, last_retention_at is unchanged,
\* and the sweep is attempted again in the next cycle and in every following
\* cycle until one sweep returns.
C35_SweepRetriedNextCycle ==
    /\ [][sweep'.raised => last_retention_at' = last_retention_at]_vars
    /\ []((CycleOver /\ sweep.owed) => (sweep.ran \/ sweep.raised))

\* The ok record of this cycle has been flushed.
OkFlushed ==
    /\ w_pc \in {"retention", "commit"}
    /\ exc = NoExc
    /\ Len(tx) > Len(db)
    /\ LastRow(tx).status = "ok"

\* C36 (as claimed): an ok record persisted with a width and a height has as
\* its people_count the number of person boxes of the detection whose bottom
\* centre lies inside the region scaled to the persisted width and height.
C36_CountMatchesPersistedRoi ==
    OkFlushed =>
        LET row == LastRow(tx)
        IN (row.image_width # Null /\ row.image_height # Null) =>
              row.people_count =
                  Some(Len(InsideRoi(PersonBoxes(det), row.image_width[1],
                                     row.image_height[1])))

----------------------------------------------------------------------------
\* The exit code of the script (SpecScript).

\* The one payload main has printed.
Payload == m_stdout[1]

\* C31: when main returns, it has printed exactly one payload and the
\* temporary JPEG is gone; the code is 0 with status ok when nothing raised,
\* 2 with status error and a null people_count when the capture raised an
\* error of the camera module, and 1 with status error after any other
\* exception.
C31_ExitCodes ==
    m_pc = "return" =>
        /\ Len(m_stdout) = 1
        /\ m_temp_path = "missing"
        /\ m_exc = NoExc =>
             (m_exit = Some(0) /\ Payload.status = "ok" /\ Payload.error = Null)
        /\ (m_raised_by = "capture" /\ m_exc.type \in CameraModuleErrors) =>
             /\ m_exit = Some(2)
             /\ Payload.status = "error"
             /\ Payload.people_count = Null
        /\ (m_exc # NoExc /\ m_exc.type \notin CameraModuleErrors) =>
             (m_exit = Some(1) /\ Payload.status = "error")
        /\ m_exit \in {Some(0), Some(1), Some(2)}

====
